---- MODULE Spec2Model ----
(***************************************************************************)
(* A model of the lager hook bus (src/src/lib/lager.js), of the            *)
(* api-gateway plugin (src/unnamed/part_003), of its deploy-apis command   *)
(* (src/unnamed/part_006) and of Lambda.deploy (lambda.js).                *)
(*                                                                         *)
(* The specifications of the module:                                       *)
(*   SpecFire   Lager.registerPlugin and Lager.fire                        *)
(*   SpecMerge  mergeSpecsFiles over a tree of spec fragments              *)
(*   SpecMergeEdit   the same, the spec files changing between calls       *)
(*   SpecMergeWrite  the same, callers writing into returned documents     *)
(*   SpecLoad   loadApis / loadEndpoints and the head of deploy            *)
(*   SpecDeploy   deploy as a whole, over small projects                   *)
(*   SpecCommand  executeCommand of the deploy-apis command                *)
(*   SpecLambda   Lambda.prototype.deploy, isDeployed and setAlias         *)
(*   SpecDeployLambdas  executeCommand of the deploy-lambdas command       *)
(*   SpecInspect  getEndpointSpec of the inspect-endpoint command          *)
(*   SpecCors   the afterAddEndpointsToApi hook of the cors plugin         *)
(*   SpecStep   addIntegrationDataToEndpoints and addEndpointsToApis       *)
(***************************************************************************)
EXTENDS Integers, Sequences, FiniteSets, TLC

VARIABLES
  \* ---- hook bus (lager.js) ----
  plugins,      \* Lager.plugins: the registered plugins, in registration order
  firePc,       \* "idle" | "hook" (a hook's promise is pending) | "resolved" | "rejected"
                \* | "thrown" (fire threw, no promise returned)
  fireEvent,    \* eventName of the fire call in progress
  fireOrig,     \* the arguments the caller passed to fire
  fireArgs,     \* args of the current callPluginsSequencialy frame / resolved value
  fireI,        \* i of the current callPluginsSequencialy frame (1-based)
  fireCalls,    \* history: hook invocations of this fire call, <<plugin index, args>>
  fireSettled,  \* history: how many of those invocations have settled
  fireSeen,     \* history: this.plugins as read by the last callPluginsSequencialy run
  fireStart,    \* history: this.plugins when fire was called
  \* ---- specification merger (part_003, mergeSpecsFiles) ----
  disk,         \* the spec file of every directory under endpoints/
  requireCache, \* node's require() cache: the module object of every spec loaded
  nextId,       \* the next fresh object identity
  results,      \* the documents mergeSpecsFiles has returned, still held by callers
  lastOp,       \* history: the last operation on the merger
  used,         \* history: per level, the fragment the last call merged
  firstSeen,    \* history: per directory, the content a call first loaded from it
  edits,        \* how many times a spec file was changed
  writes,       \* how many writes callers made into returned documents
  \* ---- loader and deploy (part_003) ----
  apisRootExists,       \* is there a directory <cwd>/apis
  apiSpecs,             \* per entry of <cwd>/apis: "absent", or the state of its spec file
  endpointsRootExists,  \* is there a directory <cwd>/endpoints
  endpointDirs,         \* the directories under <cwd>/endpoints, as lists of segments
  deployPc,             \* the step deploy() has reached
  loadApisP,            \* the promise loadApis() returned
  loadEndpointsP,       \* the promise loadEndpoints() returned
  \* ---- deploy after the loads (part_003) ----
  integrationResults,   \* the injectors the loadIntegrations hooks of the plugins deliver
  exposingApis,         \* per loaded endpoint: the API identifiers its spec declares
  injectors,            \* integrationsDataInjectors: what loadIntegrations resolved with
  applyCalls,           \* applyToEndpoint calls started, in order: <<injector, endpoint>>
  applyDone,            \* those of them that have finished
  writers,              \* per loaded endpoint: the injectors that wrote into its spec
  addCalls,             \* addEndpoint calls started, in order: <<api, endpoint>>
  addDone,              \* those of them that have finished
  apiEndpoints,         \* per loaded API: the endpoints attached to it
  publishFails,         \* the APIs whose publish the provider rejects
  publishCalls,         \* publish calls started, in order: the API of each
  publishDone,          \* those of them that have settled
  deployValue,          \* what the promise of deploy() resolved with
  trace,                 \* history: the hooks fired and operations started, in order
  \* ---- deploy-apis command (part_006, executeCommand) ----
  projectApis,          \* the identifiers of the APIs plugin.loadApis() resolves with
  apiIdentifiers,       \* parameters.apiIdentifiers
  provider,             \* per API identifier: how the provider answers its deploy
  integrationsFail,     \* does plugin.loadIntegrations() reject
  cmdPc,                \* the step executeCommand has reached
  cmdApis,              \* apis after the filter: the batch
  timersFired,          \* how many of the setTimeout callbacks have run
  timers,               \* the clock, the delay of each timer set, when each one ran
  cmdDeployed,          \* the promises of the batch that have resolved
  cmdReports,           \* per API of the batch: what its api.deploy resolved with
  cmdPublishCalls,      \* publish calls made, in order: the API of each
  cmdPublishDone,       \* those of them that have settled
  exitCode,             \* the code process.exit was called with, NoExit before
  \* ---- Lambda (lambda.js, deploy) ----
  remoteFunctions,      \* the function names that exist in AWS Lambda
  lambdaPc,             \* the step Lambda.deploy has reached
  lambdaContext,        \* context: environment and stage
  FunctionName,         \* this.config.params.FunctionName
  getFunctionE,         \* how getFunction answered the existence check
  lambdaReport,         \* report
  lambdaCalls,          \* the methods deploy invoked after the check, in order
  lambdaError,          \* the error the promise of deploy rejected with
  lambdaDeploys,        \* how many times deploy was called
  remoteVersions,       \* per function name: the last version published, 0 if none
  remoteAliases,        \* per function name and alias: the version it points to, 0 if absent
  lambdaPrev,           \* history: the deploy before this one, as it ended
  \* ---- the smaller models, one record each ----
  dl,                   \* deploy-lambdas command (deploy-lambdas.js, executeCommand)
  view,                 \* getEndpointSpec (part_003)
  cors,                 \* the afterAddEndpointsToApi hook of the cors plugin
  step                  \* addIntegrationDataToEndpoints / addEndpointsToApis with replacing hooks

fireVars == <<plugins, firePc, fireEvent, fireOrig, fireArgs, fireI,
              fireCalls, fireSettled, fireSeen, fireStart>>

mergeVars == <<disk, requireCache, nextId, results, lastOp, used, firstSeen,
               edits, writes>>

loadVars == <<apisRootExists, apiSpecs, endpointsRootExists, endpointDirs,
              deployPc, loadApisP, loadEndpointsP>>

pipeVars == <<integrationResults, exposingApis, injectors, applyCalls, applyDone,
              writers, addCalls, addDone, apiEndpoints, publishFails, publishCalls,
              publishDone, deployValue, trace>>

cmdVars == <<projectApis, apiIdentifiers, provider, integrationsFail, cmdPc, cmdApis,
             timersFired, timers, cmdDeployed, cmdReports, cmdPublishCalls, cmdPublishDone,
             exitCode>>

lambdaVars == <<remoteFunctions, lambdaPc, lambdaContext, FunctionName, getFunctionE,
                lambdaReport, lambdaCalls, lambdaError, lambdaDeploys,
                remoteVersions, remoteAliases, lambdaPrev>>

restVars == <<dl, view, cors, step>>

vars == <<fireVars, mergeVars, loadVars, pipeVars, cmdVars, lambdaVars, restVars>>

\* Everything but one of the smaller models.
bigVars == <<fireVars, mergeVars, loadVars, pipeVars, cmdVars, lambdaVars>>
otherThanDl == <<bigVars, view, cors, step>>
otherThanView == <<bigVars, dl, cors, step>>
otherThanCors == <<bigVars, dl, view, step>>
otherThanStep == <<bigVars, dl, view, cors>>

-----------------------------------------------------------------------------
(* Bounds *)
MaxPlugins == 3
MaxArgs == 3
MaxCalls == 2
MaxEdits == 1
MaxWrites == 1
MaxEndpointDirs == 2
MaxInjectors == 2
MaxApis == 3
MaxDeploys == 2
MaxLambdas == 2
MaxCorsEndpoints == 3
MaxStepItems == 2

-----------------------------------------------------------------------------
(* Hook bus: data *)

Events == {"beforeApisLoad", "afterApisLoad"}

\* What a hook does with the arguments it is applied to.
\*   "pass"    resolves with the arguments it received
\*   "repl1"   resolves with argument 1 replaced by 8
\*   "repl2"   resolves with argument 2 replaced by 9
\*   "reject"  its promise rejects
\*   "throw"   it throws before it returns a promise
HookActs == {"pass", "repl1", "repl2", "reject", "throw"}

\* A plugin either has no `hooks` member at all, or a hooks object that
\* defines a function for one event name. The hooks of the first event do
\* any of HookActs, those of the second pass their arguments on.
Plugins ==
  {[hooks |-> FALSE, on |-> "", act |-> "pass"]}
    \cup [hooks : {TRUE}, on : {"beforeApisLoad"}, act : HookActs]
    \cup [hooks : {TRUE}, on : {"afterApisLoad"}, act : {"pass"}]

\* The argument lists fire is called with: <<>>, <<1>>, <<1, 2>>, ... (the
\* elements differ, so a change of order or of position shows).
ArgLists == {[k \in 1..n |-> k] : n \in 0..MaxArgs}

\* this.plugins[i].hooks && this.plugins[i].hooks[eventName]
Implements(plugin, eventName) ==
  plugin.hooks /\ plugin.on = eventName

ReplaceAt(args, pos, val) ==
  [k \in 1..Len(args) |-> IF k = pos THEN val ELSE args[k]]

\* The list a resolving hook resolves with.
HookResult(plugin, args) ==
  CASE plugin.act = "repl1" -> ReplaceAt(args, 1, 8)
    [] plugin.act = "repl2" -> ReplaceAt(args, 2, 9)
    [] OTHER -> args

-----------------------------------------------------------------------------
(* Hook bus: Lager.prototype.fire *)

\* Mutant: the hook is looked up without the event name (any plugin that has a
\* hooks object is called).
RECURSIVE callPlugins_anyHook(_, _, _, _)
callPlugins_anyHook(plist, eventName, i, args) ==
  IF i > Len(plist)
    THEN [pc |-> "resolved", i |-> i, args |-> args]
    ELSE IF plist[i].hooks
      THEN [pc |-> "hook", i |-> i, args |-> args]
      ELSE callPlugins_anyHook(plist, eventName, i + 1, args)

\* Mutant: the event name is shifted off the arguments twice.
RECURSIVE callPlugins_shiftTwice(_, _, _, _)
callPlugins_shiftTwice(plist, eventName, i, args) ==
  IF i > Len(plist)
    THEN [pc |-> "resolved", i |-> i,
          args |-> IF i = 1 /\ args # <<>> THEN Tail(args) ELSE args]
    ELSE IF Implements(plist[i], eventName)
      THEN [pc |-> "hook", i |-> i, args |-> args]
      ELSE callPlugins_shiftTwice(plist, eventName, i + 1,
                                  IF i = 1 /\ args # <<>> THEN Tail(args) ELSE args)

\* One synchronous run of callPluginsSequencialy(i, args): it recurses over the
\* plugins that do not implement the hook and stops either at the end of the
\* list (the promise of args) or at the first plugin that implements the hook,
\* whose hook it applies to args.
RECURSIVE callPluginsSequencialy(_, _, _, _)
callPluginsSequencialy(plist, eventName, i, args) ==
  IF i > Len(plist)
    THEN [pc |-> "resolved", i |-> i, args |-> args]
    ELSE IF Implements(plist[i], eventName)
      THEN [pc |-> "hook", i |-> i, args |-> args]
      ELSE callPluginsSequencialy(plist, eventName, i + 1, args)

\* Mutant: propagateArguments passes the closure's args, not the resolved list.
propagateArguments_closureArgs(plist, eventName, i, args, arguments) ==
  callPluginsSequencialy(plist, eventName, i + 1, args)

\* .spread(function propagateArguments() {...}): the hook of plugin i, applied
\* to args, resolved with the list `arguments`; move on to plugin i + 1 with it.
propagateArguments(plist, eventName, i, args, arguments) ==
  callPluginsSequencialy(plist, eventName, i + 1, arguments)

\* this.plugins[i].hooks[eventName].apply(this.plugins[i], args).spread(...): a
\* hook that returns a promise leaves it pending; one that throws does so out
\* of callPluginsSequencialy, which is out of fire itself when fire runs it
\* (sync) and inside the .spread handler of the previous hook otherwise, whose
\* promise then rejects.
applyHook(plugin, sync) ==
  IF plugin.act = "throw"
    THEN IF sync THEN "thrown" ELSE "rejected"
    ELSE "hook"

\* Lager.prototype.registerPlugin: this.plugins.push(plugin)
registerPlugin(plugin) ==
  /\ Len(plugins) < MaxPlugins
  /\ plugins' = Append(plugins, plugin)
  /\ UNCHANGED <<firePc, fireEvent, fireOrig, fireArgs, fireI,
                 fireCalls, fireSettled, fireSeen, fireStart>>
  /\ UNCHANGED <<mergeVars, loadVars, pipeVars, cmdVars, lambdaVars, restVars>>

\* Lager.prototype.fire(eventName, ...args): callPluginsSequencialy(0, args)
fire(eventName, args) ==
  /\ firePc \in {"idle", "resolved", "rejected", "thrown"}
  /\ LET r == callPluginsSequencialy(plugins, eventName, 1, args) IN
       /\ firePc' = IF r.pc = "hook" THEN applyHook(plugins[r.i], TRUE) ELSE r.pc
       /\ fireSettled' = IF r.pc = "hook" /\ plugins[r.i].act = "throw" THEN 1 ELSE 0
       /\ fireI' = r.i
       /\ fireArgs' = r.args
       /\ fireCalls' = IF r.pc = "hook" THEN <<[plugin |-> r.i, args |-> r.args]>> ELSE <<>>
  /\ fireEvent' = eventName
  /\ fireOrig' = args
  /\ fireSeen' = plugins
  /\ fireStart' = plugins
  /\ UNCHANGED plugins
  /\ UNCHANGED <<mergeVars, loadVars, pipeVars, cmdVars, lambdaVars, restVars>>

\* The pending hook's promise resolves and .spread runs propagateArguments.
hookResolves ==
  /\ firePc = "hook"
  /\ plugins[fireI].act # "reject"
  /\ LET r == propagateArguments(plugins, fireEvent, fireI, fireArgs,
                                 HookResult(plugins[fireI], fireArgs)) IN
       /\ firePc' = IF r.pc = "hook" THEN applyHook(plugins[r.i], FALSE) ELSE r.pc
       /\ fireSettled' = IF r.pc = "hook" /\ plugins[r.i].act = "throw"
                           THEN fireSettled + 2 ELSE fireSettled + 1
       /\ fireI' = r.i
       /\ fireArgs' = r.args
       /\ fireCalls' = IF r.pc = "hook"
                         THEN Append(fireCalls, [plugin |-> r.i, args |-> r.args])
                         ELSE fireCalls
  /\ fireSeen' = plugins
  /\ UNCHANGED <<plugins, fireEvent, fireOrig, fireStart>>
  /\ UNCHANGED <<mergeVars, loadVars, pipeVars, cmdVars, lambdaVars, restVars>>

\* The pending hook's promise rejects: .spread's handler is not run and the
\* promise fire returned rejects.
hookRejects ==
  /\ firePc = "hook"
  /\ plugins[fireI].act = "reject"
  /\ firePc' = "rejected"
  /\ fireSettled' = fireSettled + 1
  /\ UNCHANGED <<plugins, fireEvent, fireOrig, fireArgs, fireI, fireCalls,
                 fireSeen, fireStart>>
  /\ UNCHANGED <<mergeVars, loadVars, pipeVars, cmdVars, lambdaVars, restVars>>

NextFire ==
  \/ \E p \in Plugins : registerPlugin(p)
  \/ \E e \in Events, a \in ArgLists : fire(e, a)
  \/ hookResolves
  \/ hookRejects

-----------------------------------------------------------------------------
(* Specification merger: documents *)

\* The keys of a fragment: a scalar, a sequence and a nested mapping.
Keys == {"summary", "consume", "responses"}
SubKeys == {"200", "404"}

KeyIndex(k) == CASE k = "summary" -> 1 [] k = "consume" -> 2 [] k = "responses" -> 3

\* Identities one object takes: itself and one per property.
IdsPerObject == 4

\* A property value. kind "none": the key is absent. A nested mapping holds a
\* scalar per sub-key (0: the sub-key is absent). id is the identity of the
\* array or of the nested object (0 for a scalar and in a file's text).
NoVal == [kind |-> "none", n |-> 0, sub |-> [k \in SubKeys |-> 0], elems |-> <<>>, id |-> 0]
Scalar(n) == [NoVal EXCEPT !.kind = "scalar", !.n = n]
List(e) == [NoVal EXCEPT !.kind = "list", !.elems = e]
Map200(n) == [NoVal EXCEPT !.kind = "map", !.sub = [k \in SubKeys |-> IF k = "200" THEN n ELSE 0]]
Map404(n) == [NoVal EXCEPT !.kind = "map", !.sub = [k \in SubKeys |-> IF k = "404" THEN n ELSE 0]]

Doc(summary, consume, responses) ==
  [id |-> 0,
   props |-> [k \in Keys |-> CASE k = "summary" -> summary
                               [] k = "consume" -> consume
                               [] k = "responses" -> responses]]

\* const spec = {}
EmptyDoc == Doc(NoVal, NoVal, NoVal)

\* The contents a spec file can have.
Fragments ==
  { Doc(Scalar(1), NoVal, Map200(1)),
    Doc(Scalar(2), NoVal, Map404(2)),
    Doc(NoVal, List(<<1, 2>>), Map200(2)),
    Doc(NoVal, List(<<3>>), NoVal) }

\* A spec file: absent, a document, or text that does not parse.
Files ==
  {[state |-> "missing", doc |-> EmptyDoc], [state |-> "malformed", doc |-> EmptyDoc]}
    \cup [state : {"ok"}, doc : Fragments]

MissingFile == [state |-> "missing", doc |-> EmptyDoc]

\* What the POST leaf holds at the start, and what an edit can write.
LeafFiles == {MissingFile, [state |-> "ok", doc |-> Doc(Scalar(2), NoVal, Map404(2))]}
EditFiles == LeafFiles \cup {[state |-> "ok", doc |-> Doc(NoVal, List(<<3>>), NoVal)]}

\* The directories under the endpoints root, as lists of segments, and the
\* sub-paths mergeSpecsFiles is called with.
SubPaths == {<<"a", "b", "GET">>, <<"a", "b", "POST">>}
MergeDirs == {SubSeq(sp, 1, n) : sp \in SubPaths, n \in 1..3}

\* The names a directory under endpoints/a can have: the methods of the
\* endpoint model and one name that is no method.
LeafNames == {"ANY", "DELETE", "GET", "HEAD", "OPTIONS", "PATCH", "POST", "PUT"}

\* Every directory the tree under endpoints/ can hold.
CandidateDirs ==
  {<<"GET">>, <<"a">>, <<"a", "b">>, <<"a", "b", "GET">>, <<"a", "b", "POST">>}
    \cup {<<"a", m>> : m \in LeafNames}

\* The directories a spec file is looked for in (<<>> is endpoints/ itself).
Dirs == {<<>>} \cup CandidateDirs

\* The document without the identities: what JSON.stringify would print.
StripIds(doc) ==
  [id |-> 0, props |-> [k \in Keys |-> [doc.props[k] EXCEPT !.id = 0]]]

\* A deep copy of doc made of fresh objects nid, nid + 1, ...
WithIds(doc, nid) ==
  [id |-> nid,
   props |-> [k \in Keys |->
                IF doc.props[k].kind \in {"map", "list"}
                  THEN [doc.props[k] EXCEPT !.id = nid + KeyIndex(k)]
                  ELSE doc.props[k]]]

\* The identities of the objects a document is made of.
IdsOf(doc) ==
  {doc.id} \cup {doc.props[k].id : k \in {j \in Keys : doc.props[j].kind \in {"map", "list"}}}

-----------------------------------------------------------------------------
(* Specification merger: require, _.cloneDeep, _.merge, mergeSpecsFiles *)

\* Mutant: the clone is left out and the cached module object itself is merged.
cloneDeep_identity(obj, nid) == obj

\* _.cloneDeep(value)
cloneDeep(obj, nid) == WithIds(obj, nid)

\* Mutant: require() that loads the file again at every call.
require_noCache(cache, dir, nid) ==
  CASE disk[dir].state = "missing" ->
         [outcome |-> "MODULE_NOT_FOUND", obj |-> EmptyDoc, cache |-> cache, nid |-> nid]
    [] disk[dir].state = "malformed" ->
         [outcome |-> "SyntaxError", obj |-> EmptyDoc, cache |-> cache, nid |-> nid]
    [] OTHER ->
         [outcome |-> "ok", obj |-> WithIds(disk[dir].doc, nid), cache |-> cache,
          nid |-> nid + IdsPerObject]

\* Mutant: require() for which an absent file is an error like any other.
require_missingIsError(cache, dir, nid) ==
  IF cache[dir].loaded
    THEN [outcome |-> "ok", obj |-> cache[dir].obj, cache |-> cache, nid |-> nid]
    ELSE IF disk[dir].state # "ok"
      THEN [outcome |-> "SyntaxError", obj |-> EmptyDoc, cache |-> cache, nid |-> nid]
      ELSE LET obj == WithIds(disk[dir].doc, nid) IN
             [outcome |-> "ok", obj |-> obj,
              cache |-> [cache EXCEPT ![dir] = [loaded |-> TRUE, obj |-> obj]],
              nid |-> nid + IdsPerObject]

\* require(searchSpecDir + path.sep + 'spec'): the module object of the cache
\* when the module was loaded before; otherwise the file is read and parsed,
\* and cached only when that succeeds.
require(cache, dir, nid) ==
  IF cache[dir].loaded
    THEN [outcome |-> "ok", obj |-> cache[dir].obj, cache |-> cache, nid |-> nid]
    ELSE CASE disk[dir].state = "missing" ->
                [outcome |-> "MODULE_NOT_FOUND", obj |-> EmptyDoc, cache |-> cache, nid |-> nid]
           [] disk[dir].state = "malformed" ->
                [outcome |-> "SyntaxError", obj |-> EmptyDoc, cache |-> cache, nid |-> nid]
           [] OTHER ->
                LET obj == WithIds(disk[dir].doc, nid) IN
                  [outcome |-> "ok", obj |-> obj,
                   cache |-> [cache EXCEPT ![dir] = [loaded |-> TRUE, obj |-> obj]],
                   nid |-> nid + IdsPerObject]

Max(a, b) == IF a >= b THEN a ELSE b

\* Mutant: the destination wins (the behaviour of _.defaultsDeep).
mergeValue_destinationWins(objValue, srcValue) ==
  IF objValue.kind = "none" THEN srcValue
  ELSE IF objValue.kind = "map" /\ srcValue.kind = "map"
    THEN [objValue EXCEPT !.sub = [k \in SubKeys |->
                             IF objValue.sub[k] # 0 THEN objValue.sub[k] ELSE srcValue.sub[k]]]
    ELSE objValue

\* _.merge on one key (lodash's baseMerge): an absent source key leaves the
\* destination alone; a scalar is assigned; a nested mapping is merged key by
\* key into the destination's mapping; an array is merged index by index into
\* the destination's array. A source mapping or array that meets no container
\* of its kind in the destination is taken over as it is (the library is not
\* part of the repository; this is the weakest sharing it could have).
mergeValue(objValue, srcValue) ==
  CASE srcValue.kind = "none" -> objValue
    [] srcValue.kind = "scalar" -> srcValue
    [] srcValue.kind = "map" /\ objValue.kind = "map" ->
         [objValue EXCEPT !.sub = [k \in SubKeys |->
                             IF srcValue.sub[k] # 0 THEN srcValue.sub[k] ELSE objValue.sub[k]]]
    [] srcValue.kind = "list" /\ objValue.kind = "list" ->
         [objValue EXCEPT !.elems =
            [i \in 1..Max(Len(objValue.elems), Len(srcValue.elems)) |->
               IF i <= Len(srcValue.elems) THEN srcValue.elems[i] ELSE objValue.elems[i]]]
    [] OTHER -> srcValue

\* _.merge(object, source): object, mutated.
merge(object, source) ==
  [id |-> object.id,
   props |-> [k \in Keys |-> mergeValue(object.props[k], source.props[k])]]

\* path.join(searchSpecDir, subDir): an empty segment adds nothing.
pathJoin(dir, subDir) == IF subDir = "" THEN dir ELSE Append(dir, subDir)

\* The do/while loop of mergeSpecsFiles: st is the state of the call before an
\* iteration, subDirs what is left of the sub-path.
RECURSIVE mergeLoop(_, _)
mergeLoop(st, subDirs) ==
  LET searchSpecDir == pathJoin(st.searchSpecDir, Head(subDirs))
      rq == require(st.cache, searchSpecDir, st.nid)
      \* let subSpec = {}, replaced by the clone when require() succeeds
      subSpec == IF rq.outcome = "ok" THEN cloneDeep(rq.obj, rq.nid)
                                      ELSE WithIds(EmptyDoc, rq.nid)
      level == [outcome |-> rq.outcome, doc |-> StripIds(rq.obj)]
  IN  IF rq.outcome \notin {"ok", "MODULE_NOT_FOUND"}
        THEN \* if (e.code !== 'MODULE_NOT_FOUND') { throw e; }
             [st EXCEPT !.threw = TRUE, !.cache = rq.cache, !.nid = rq.nid,
                        !.used = Append(st.used, level)]
        ELSE LET st2 == [spec |-> merge(st.spec, subSpec),
                         searchSpecDir |-> searchSpecDir,
                         cache |-> rq.cache,
                         nid |-> rq.nid + IdsPerObject,
                         threw |-> FALSE,
                         used |-> Append(st.used, level)]
             IN  IF Tail(subDirs) # <<>> THEN mergeLoop(st2, Tail(subDirs)) ELSE st2

\* mergeSpecsFiles(beginPath, subPath), run against the require cache `cache`
\* with nid the next fresh identity: the document returned (spec), whether the
\* call threw instead, and the cache and the next identity after the call.
mergeSpecsFiles(beginPath, subPath, cache, nid) ==
  mergeLoop([spec |-> WithIds(EmptyDoc, nid), searchSpecDir |-> beginPath,
             cache |-> cache, nid |-> nid + IdsPerObject, threw |-> FALSE,
             used |-> <<>>], subPath)

-----------------------------------------------------------------------------
(* Specification merger: operations *)

NoOp == [op |-> "none", idx |-> 0]

\* A caller (loadEndpoint) calls mergeSpecsFiles(endpointSpecRootPath, subPath)
\* and keeps the document it returns.
callMergeSpecsFiles(subPath) ==
  /\ Len(results) < MaxCalls
  /\ LET r == mergeSpecsFiles(<<>>, subPath, requireCache, nextId) IN
       /\ requireCache' = r.cache
       /\ nextId' = r.nid
       /\ results' = Append(results, [path |-> subPath, threw |-> r.threw,
                                      doc |-> IF r.threw THEN EmptyDoc ELSE r.spec])
       /\ used' = r.used
       /\ firstSeen' = [d \in Dirs |->
            IF /\ ~firstSeen[d].seen
               /\ \E n \in 1..Len(r.used) : SubSeq(subPath, 1, n) = d /\ r.used[n].outcome = "ok"
              THEN [seen |-> TRUE, doc |-> disk[d].doc]
              ELSE firstSeen[d]]
  /\ lastOp' = [op |-> "merge", idx |-> Len(results) + 1]
  /\ UNCHANGED <<disk, edits, writes>>
  /\ UNCHANGED <<fireVars, loadVars, pipeVars, cmdVars, lambdaVars, restVars>>

\* The user changes, creates or deletes a spec file while the process runs.
editSpecFile(dir, file) ==
  /\ edits < MaxEdits
  /\ disk[dir] # file
  /\ disk' = [disk EXCEPT ![dir] = file]
  /\ edits' = edits + 1
  /\ lastOp' = [op |-> "edit", idx |-> 0]
  /\ UNCHANGED <<requireCache, nextId, results, used, firstSeen, writes>>
  /\ UNCHANGED <<fireVars, loadVars, pipeVars, cmdVars, lambdaVars, restVars>>

\* What a write of `val` to property `key` of the object `id` does to a
\* document: it shows in the document if the document is that object.
WriteProp(doc, id, key, val) ==
  IF doc.id = id THEN [doc EXCEPT !.props[key] = val] ELSE doc

\* What a write of n to sub-key sk of the nested object `id` does to a document.
WriteSub(doc, id, sk, n) ==
  [doc EXCEPT !.props = [k \in Keys |->
     IF doc.props[k].kind = "map" /\ doc.props[k].id = id
       THEN [doc.props[k] EXCEPT !.sub[sk] = n]
       ELSE doc.props[k]]]

\* A hook or an injector sets a top-level key of the document of result i
\* (endpoint.getSpec().summary = 7). Every holder of that object sees it.
writeSummary(i) ==
  /\ writes < MaxWrites
  /\ i \in 1..Len(results)
  /\ ~results[i].threw
  /\ LET id == results[i].doc.id IN
       /\ results' = [j \in 1..Len(results) |->
                        [results[j] EXCEPT !.doc = WriteProp(@, id, "summary", Scalar(7))]]
       /\ requireCache' = [d \in Dirs |->
                        [requireCache[d] EXCEPT !.obj = WriteProp(@, id, "summary", Scalar(7))]]
  /\ writes' = writes + 1
  /\ lastOp' = [op |-> "write", idx |-> i]
  /\ UNCHANGED <<disk, nextId, used, firstSeen, edits>>
  /\ UNCHANGED <<fireVars, loadVars, pipeVars, cmdVars, lambdaVars, restVars>>

\* A hook or an injector writes into the nested mapping of the document of
\* result i (spec.responses['200'] = 7). Every holder of that object sees it.
writeResponse(i) ==
  /\ writes < MaxWrites
  /\ i \in 1..Len(results)
  /\ ~results[i].threw
  /\ results[i].doc.props["responses"].kind = "map"
  /\ LET id == results[i].doc.props["responses"].id IN
       /\ results' = [j \in 1..Len(results) |->
                        [results[j] EXCEPT !.doc = WriteSub(@, id, "200", 7)]]
       /\ requireCache' = [d \in Dirs |->
                        [requireCache[d] EXCEPT !.obj = WriteSub(@, id, "200", 7)]]
  /\ writes' = writes + 1
  /\ lastOp' = [op |-> "write", idx |-> i]
  /\ UNCHANGED <<disk, nextId, used, firstSeen, edits>>
  /\ UNCHANGED <<fireVars, loadVars, pipeVars, cmdVars, lambdaVars, restVars>>

\* A promise nobody has asked for yet.
NoError == [name |-> "", code |-> "", path |-> <<>>]
NoPromise == [state |-> "none", isList |-> FALSE, value |-> <<>>, err |-> NoError]

NoDisk == [d \in Dirs |-> MissingFile]

\* The values deploy() can resolve with: undefined, an Api, a list of values.
Undefined == [type |-> "undefined", identifier |-> "", items |-> <<>>]
ApiValue(api) == [type |-> "Api", identifier |-> api.identifier, items |-> <<>>]
ListValue(items) == [type |-> "list", identifier |-> "", items |-> items]

\* The steps of deploy after the loads, before any of them ran.
PipeIdle ==
  /\ integrationResults = <<>>
  /\ exposingApis = <<>>
  /\ injectors = <<>>
  /\ applyCalls = <<>>
  /\ applyDone = {}
  /\ writers = <<>>
  /\ addCalls = <<>>
  /\ addDone = {}
  /\ apiEndpoints = <<>>
  /\ publishFails = {}
  /\ publishCalls = <<>>
  /\ publishDone = {}
  /\ deployValue = Undefined
  /\ trace = <<>>

\* No process.exit yet.
NoExit == -1

\* The deploy-apis command before executeCommand is called.
\* No timer set, the clock at the time the command is run.
NoTimers == [now |-> 0, delay |-> <<>>, ran |-> <<>>]

CmdIdle ==
  /\ projectApis = <<>>
  /\ apiIdentifiers = {}
  /\ provider = <<>>
  /\ integrationsFail = FALSE
  /\ cmdPc = "idle"
  /\ cmdApis = <<>>
  /\ timersFired = 0
  /\ timers = NoTimers
  /\ cmdDeployed = {}
  /\ cmdReports = <<>>
  /\ cmdPublishCalls = <<>>
  /\ cmdPublishDone = {}
  /\ exitCode = NoExit

\* Before the first deploy of a Lambda there is no deploy before it.
NoPrev == [name |-> <<>>, context |-> [environment |-> "", stage |-> ""],
           operation |-> "", pc |-> "idle"]

\* No Lambda deployed and nothing in AWS Lambda.
LambdaIdle ==
  /\ remoteFunctions = {}
  /\ lambdaPc = "idle"
  /\ lambdaContext = [environment |-> "", stage |-> ""]
  /\ FunctionName = <<>>
  /\ getFunctionE = ""
  /\ lambdaReport = [name |-> <<>>, operation |-> "", arn |-> <<>>,
                     publishedVersion |-> 0, aliasExisted |-> "undefined"]
  /\ lambdaCalls = <<>>
  /\ lambdaError = ""
  /\ lambdaDeploys = 0
  /\ remoteVersions = <<>>
  /\ remoteAliases = <<>>
  /\ lambdaPrev = NoPrev

\* No error: the outcome of a deploy that resolves.
NoErr == [code |-> "ok", cause |-> "undefined"]

\* The deploy-lambdas command before executeCommand is called.
DlIdle ==
  [lambdas |-> <<>>, all |-> TRUE, identifiers |-> {}, outcome |-> <<>>,
   pc |-> "idle", batch |-> <<>>, settled |-> {},
   map |-> [state |-> "pending", error |-> NoErr],
   printed |-> <<>>, exit |-> NoExit, error |-> NoErr]

\* getEndpointSpec before it is called.
ViewIdle == [pc |-> "idle", spec |-> {}, type |-> "undefined", json |-> <<>>]

CorsIdle == [pc |-> "idle", before |-> <<>>, endpoints |-> <<>>, config |-> <<>>,
             promises |-> <<>>, done |-> {}]

StepIdle == [pc |-> "idle", fn |-> "", first |-> <<>>, second |-> <<>>,
             beforeAct |-> "pass", afterAct |-> "pass", beforeResult |-> <<>>,
             calls |-> <<>>, done |-> {}, afterArgs |-> <<>>, value |-> <<>>]

\* The smaller models before any of their operations.
RestIdle == dl = DlIdle /\ view = ViewIdle /\ cors = CorsIdle /\ step = StepIdle

\* The loader before deploy: an empty project and nothing loaded.
LoadIdle ==
  /\ apisRootExists = FALSE
  /\ apiSpecs = [a \in {"back", "front"} |-> "absent"]
  /\ endpointsRootExists = FALSE
  /\ endpointDirs = {}
  /\ deployPc = "idle"
  /\ loadApisP = NoPromise
  /\ loadEndpointsP = NoPromise
  /\ PipeIdle

\* The hook bus with no plugin registered and no event fired.
FireIdle ==
  /\ plugins = <<>>
  /\ firePc = "idle"
  /\ fireEvent = ""
  /\ fireOrig = <<>>
  /\ fireArgs = <<>>
  /\ fireI = 1
  /\ fireCalls = <<>>
  /\ fireSettled = 0
  /\ fireSeen = <<>>
  /\ fireStart = <<>>

\* The merger before any call: nothing loaded, nothing returned.
MergeIdle ==
  /\ requireCache = [d \in Dirs |-> [loaded |-> FALSE, obj |-> EmptyDoc]]
  /\ nextId = 2
  /\ results = <<>>
  /\ lastOp = NoOp
  /\ used = <<>>
  /\ firstSeen = [d \in Dirs |-> [seen |-> FALSE, doc |-> EmptyDoc]]
  /\ edits = 0
  /\ writes = 0

InitMerge ==
  /\ \E f \in [MergeDirs -> Files] :
       /\ f[<<"a", "b", "POST">>] \in LeafFiles
       /\ disk = [d \in Dirs |-> IF d \in MergeDirs THEN f[d] ELSE MissingFile]
  /\ MergeIdle
  /\ FireIdle
  /\ LoadIdle
  /\ CmdIdle
  /\ LambdaIdle
  /\ RestIdle

\* Calls of mergeSpecsFiles over every content of the tree.
NextMerge ==
  \E sp \in SubPaths : callMergeSpecsFiles(sp)

\* Calls of mergeSpecsFiles with spec files changing between them.
InitMergeEdit ==
  /\ \E f \in [MergeDirs -> LeafFiles] :
       disk = [d \in Dirs |-> IF d \in MergeDirs THEN f[d] ELSE MissingFile]
  /\ MergeIdle
  /\ FireIdle
  /\ LoadIdle
  /\ CmdIdle
  /\ LambdaIdle
  /\ RestIdle

NextMergeEdit ==
  \/ \E sp \in SubPaths : callMergeSpecsFiles(sp)
  \/ \E d \in MergeDirs, f \in EditFiles : editSpecFile(d, f)

\* Calls of mergeSpecsFiles with writes into the documents they returned.
InitMergeWrite ==
  /\ \E f \in [MergeDirs -> {g \in Files : g.state # "malformed"
                                              /\ g.doc.props["consume"].elems # <<3>>}] :
       /\ f[<<"a", "b", "POST">>] \in LeafFiles
       /\ disk = [d \in Dirs |-> IF d \in MergeDirs THEN f[d] ELSE MissingFile]
  /\ MergeIdle
  /\ FireIdle
  /\ LoadIdle
  /\ CmdIdle
  /\ LambdaIdle
  /\ RestIdle

NextMergeWrite ==
  \/ \E sp \in SubPaths : callMergeSpecsFiles(sp)
  \/ \E i \in 1..MaxCalls : writeSummary(i)
  \/ \E i \in 1..MaxCalls : writeResponse(i)

-----------------------------------------------------------------------------
(* Loader: the events it fires and what they settle to *)

\* The error a rejecting hook rejects with: no code, no path.
HookError == [name |-> "HookError", code |-> "", path |-> <<>>]

\* What the promise of lager.fire(eventName, ...args) settles to: the frames
\* of callPluginsSequencialy run one after the other, each pending hook
\* settling before the next frame.
RECURSIVE hookSettles(_, _, _)
hookSettles(plist, eventName, r) ==
  IF r.pc = "resolved" THEN [ok |-> TRUE, args |-> r.args]
  ELSE IF plist[r.i].act = "reject" THEN [ok |-> FALSE, args |-> r.args]
  ELSE hookSettles(plist, eventName,
         propagateArguments(plist, eventName, r.i, r.args, HookResult(plist[r.i], r.args)))

fireSettles(plist, eventName, args) ==
  hookSettles(plist, eventName, callPluginsSequencialy(plist, eventName, 1, args))

\* Whether the promise of lager.fire(eventName, ...args) resolves, with the
\* plugins registered.
fireResolves(eventName, args) == fireSettles(plugins, eventName, args).ok

\* .spread(first => Promise.resolve(first)) on the promise f of a fired event
\* whose first argument was obj.
spreadFirst(f, obj) ==
  [err |-> IF f.ok THEN NoError ELSE HookError,
   value |-> IF f.ok THEN f.args[1] ELSE obj]

\* lager.fire(eventName, obj).spread(first => Promise.resolve(first))
fireAfter(eventName, obj) == spreadFirst(fireSettles(plugins, eventName, <<obj>>), obj)

Resolved(list) == [state |-> "resolved", isList |-> TRUE, value |-> list, err |-> NoError]
ResolvedUndefined == [state |-> "resolved", isList |-> FALSE, value |-> <<>>, err |-> NoError]
Rejected(e) == [state |-> "rejected", isList |-> FALSE, value |-> <<>>, err |-> e]
Pending == [state |-> "pending", isList |-> FALSE, value |-> <<>>, err |-> NoError]

\* path.basename(e.path)
basename(path) == IF path = <<>> THEN "" ELSE path[Len(path)]

\* The error of fs on a directory that does not exist.
ENOENT(path) == [name |-> "Error", code |-> "ENOENT", path |-> path]

-----------------------------------------------------------------------------
(* Loader: loadApis, loadApi *)

ApiIds == {"back", "front"}

\* fs.readdirAsync(apiSpecsPath): the entries of <cwd>/apis, sorted.
ApiEntry(a) == apiSpecs[a] # "absent"

readdirApis == SelectSeq(<<"back", "front">>, ApiEntry)

\* loadApi(apiSpecPath, identifier): beforeApiLoad, require() of the spec,
\* new Api, afterApiLoad.
newApi(identifier) == [identifier |-> identifier]

loadApiThen(identifier, after) ==
  [api |-> after.value,
   err |-> IF ~fireResolves("beforeApiLoad", <<identifier>>) THEN HookError
           ELSE IF apiSpecs[identifier] = "nospec"
             THEN [name |-> "Error", code |-> "MODULE_NOT_FOUND", path |-> <<>>]
           ELSE IF apiSpecs[identifier] = "malformed"
             THEN [name |-> "SyntaxError", code |-> "", path |-> <<>>]
           ELSE after.err]

loadApi(identifier) ==
  loadApiThen(identifier, fireAfter("afterApiLoad", newApi(identifier)))

\* .catch(e => ...) of loadApis
loadApisCatch(e) ==
  IF e.code = "ENOENT" /\ basename(e.path) = "apis" THEN Resolved(<<>>) ELSE Rejected(e)

\* loadApis(): what its promise settles to.
\* The first error of a list of loads, NoError when none failed.
RECURSIVE firstError(_)
firstError(loaded) ==
  IF loaded = <<>> THEN NoError
  ELSE IF Head(loaded).err # NoError THEN Head(loaded).err
  ELSE firstError(Tail(loaded))

apisAfter(after) == [err |-> after.err, apis |-> after.value]

\* The body of loadApis before its catch: the APIs it resolves with, or the
\* error it throws.
loadApisTry(subdirs, loaded) ==
  IF ~fireResolves("beforeApisLoad", <<>>) THEN [err |-> HookError, apis |-> <<>>]
  ELSE IF ~apisRootExists THEN [err |-> ENOENT(<<"cwd", "apis">>), apis |-> <<>>]
  ELSE IF firstError(loaded) # NoError THEN [err |-> firstError(loaded), apis |-> <<>>]
  ELSE apisAfter(fireAfter("afterApisLoad", [k \in 1..Len(loaded) |-> loaded[k].api]))

loadApisSettle(t) == IF t.err = NoError THEN Resolved(t.apis) ELSE loadApisCatch(t.err)

\* loadApis(): what its promise settles to.
loadApis ==
  loadApisSettle(loadApisTry(readdirApis,
                             [k \in 1..Len(readdirApis) |-> loadApi(readdirApis[k])]))

-----------------------------------------------------------------------------
(* Loader: loadEndpoints, loadEndpoint *)

\* The methods loadEndpoints looks for.
HttpMethods == {"GET", "POST", "PUT", "PATCH", "DELETE"}

\* The directories file.walkSync visits from endpoints/: itself, then every
\* directory below it, parents before children, siblings by name.
WalkOrder ==
  << <<>>, <<"GET">>, <<"a">>, <<"a", "ANY">>, <<"a", "DELETE">>, <<"a", "GET">>,
     <<"a", "HEAD">>, <<"a", "OPTIONS">>, <<"a", "PATCH">>, <<"a", "POST">>,
     <<"a", "PUT">>, <<"a", "b">>, <<"a", "b", "GET">>, <<"a", "b", "POST">> >>

IsDirectory(d) == d = <<>> \/ d \in endpointDirs

walkSync == SelectSeq(WalkOrder, IsDirectory)

\* A path or URL string is the sequence of its tokens: names and separators.
\* path.sep and the '/' of URLs are the same token.
sep == "/"

Token(part) == IF part = "" THEN <<>> ELSE <<part>>

\* parts.join(separator)
RECURSIVE join(_, _)
join(parts, separator) ==
  IF parts = <<>> THEN <<>>
  ELSE IF Len(parts) = 1 THEN Token(parts[1])
  ELSE Token(parts[1]) \o <<separator>> \o join(Tail(parts), separator)

\* str.split(separator), `part` being the part read so far
RECURSIVE splitFrom(_, _, _)
splitFrom(str, part, separator) ==
  IF str = <<>> THEN <<part>>
  ELSE IF Head(str) = separator THEN <<part>> \o splitFrom(Tail(str), "", separator)
  ELSE splitFrom(Tail(str), Head(str), separator)

split(str, separator) == splitFrom(str, "", separator)

\* dirPath.substr(endpointSpecsPath.length) for the directory dir below
\* endpoints/: what follows the path of endpoints/ in its path.
subPathOf(dir) == IF dir = <<>> THEN <<>> ELSE <<sep>> \o join(dir, sep)

Front(seq) == SubSeq(seq, 1, Len(seq) - 1)

\* const method = resourcePathParts.pop(), and what is done with it
walkCallback(resourcePathParts) ==
  IF resourcePathParts[Len(resourcePathParts)] \notin HttpMethods
    THEN <<>>
    ELSE <<[resourcePath |-> join(Front(resourcePathParts), "/"),
            method |-> resourcePathParts[Len(resourcePathParts)]]>>

\* The callback of walkSync on every directory visited: the (resource path,
\* method) pairs loadEndpoint is called with.
RECURSIVE walkCallbacks(_)
walkCallbacks(visited) ==
  IF visited = <<>> THEN <<>>
  ELSE walkCallback(split(subPathOf(Head(visited)), sep)) \o walkCallbacks(Tail(visited))

\* loadEndpoint(endpointSpecRootPath, resourcePath, method) against the require
\* cache `cache`: beforeEndpointLoad, mergeSpecsFiles, new Endpoint,
\* afterEndpointLoad.
newEndpoint(spec, resourcePath, method) ==
  [method |-> method, resourcePath |-> resourcePath, spec |-> spec]

endpointAfter(m, after) ==
  [endpoint |-> after.value,
   cache |-> m.cache,
   nid |-> m.nid,
   err |-> IF m.threw THEN [name |-> "SyntaxError", code |-> "", path |-> <<>>]
                      ELSE after.err]

loadEndpointThen(m, resourcePath, method) ==
  endpointAfter(m, fireAfter("afterEndpointLoad", newEndpoint(m.spec, resourcePath, method)))

loadEndpoint(resourcePath, method, cache, nid) ==
  IF ~fireResolves("beforeEndpointLoad", <<>>)
    THEN [endpoint |-> newEndpoint(EmptyDoc, resourcePath, method),
          cache |-> cache, nid |-> nid, err |-> HookError]
    ELSE loadEndpointThen(
           mergeSpecsFiles(<<>>,
                           split(join(split(resourcePath, "/"), sep) \o <<sep, method>>, sep),
                           cache, nid),
           resourcePath, method)

\* endpointPromises.push(loadEndpoint(...)): the loads collected so far and the
\* require cache after them.
pushEndpoint(acc, r) ==
  [loaded |-> Append(acc.loaded, r), cache |-> r.cache, nid |-> r.nid]

\* The endpoints loaded one after the other from the pairs `calls` of the walk.
RECURSIVE loadAllEndpoints(_, _)
loadAllEndpoints(calls, acc) ==
  IF calls = <<>> THEN acc
  ELSE loadAllEndpoints(Tail(calls),
         pushEndpoint(acc, loadEndpoint(Head(calls).resourcePath, Head(calls).method,
                                        acc.cache, acc.nid)))

\* Mutant: the whole path of the error is compared with the directory name.
loadEndpointsCatch_wholePath(e) ==
  IF e.code = "ENOENT" /\ e.path = <<"endpoints">> THEN Resolved(<<>>) ELSE ResolvedUndefined

\* .catch(e => ...) of loadEndpoints: the rejection of its last line is not
\* returned, so the promise resolves with undefined.
loadEndpointsCatch(e) ==
  IF e.code = "ENOENT" /\ basename(e.path) = "endpoints"
    THEN Resolved(<<>>)
    ELSE ResolvedUndefined

\* loadEndpoints(): what its promise settles to (p), and the require cache and
\* the next fresh identity after it.
endpointsAfter(all, after) ==
  [err |-> after.err, endpoints |-> after.value, cache |-> all.cache, nid |-> all.nid]

\* The body of loadEndpoints before its catch, `all` being the loads of the
\* walk: the endpoints it resolves with, or the error it throws.
loadEndpointsTry(all) ==
  IF ~fireResolves("beforeEndpointsLoad", <<>>)
    THEN [err |-> HookError, endpoints |-> <<>>, cache |-> requireCache, nid |-> nextId]
  ELSE IF ~endpointsRootExists
    THEN [err |-> ENOENT(<<"cwd", "endpoints">>), endpoints |-> <<>>,
          cache |-> requireCache, nid |-> nextId]
  ELSE IF firstError(all.loaded) # NoError
    THEN [err |-> firstError(all.loaded), endpoints |-> <<>>,
          cache |-> all.cache, nid |-> all.nid]
  ELSE endpointsAfter(all, fireAfter("afterEndpointsLoad",
                             [k \in 1..Len(all.loaded) |-> all.loaded[k].endpoint]))

loadEndpointsSettle(t) ==
  [p |-> IF t.err = NoError THEN Resolved(t.endpoints) ELSE loadEndpointsCatch(t.err),
   cache |-> t.cache,
   nid |-> t.nid]

\* loadEndpoints(): what its promise settles to (p), and the require cache and
\* the next fresh identity after it.
loadEndpoints ==
  loadEndpointsSettle(loadEndpointsTry(
    loadAllEndpoints(walkCallbacks(walkSync),
                     [loaded |-> <<>>, cache |-> requireCache, nid |-> nextId])))

-----------------------------------------------------------------------------
(* Loader: the head of deploy *)

\* deploy(region, stage, environment): Promise.all([loadApis(), loadEndpoints()])
deploy ==
  /\ deployPc = "idle"
  /\ deployPc' = "loading"
  /\ loadApisP' = Pending
  /\ loadEndpointsP' = Pending
  /\ UNCHANGED <<apisRootExists, apiSpecs, endpointsRootExists, endpointDirs>>
  /\ UNCHANGED <<fireVars, mergeVars, pipeVars, cmdVars, lambdaVars, restVars>>

\* The promise of loadApis() settles.
loadApisSettles ==
  /\ loadApisP.state = "pending"
  /\ loadApisP' = loadApis
  /\ UNCHANGED <<apisRootExists, apiSpecs, endpointsRootExists, endpointDirs,
                 deployPc, loadEndpointsP>>
  /\ UNCHANGED <<fireVars, mergeVars, pipeVars, cmdVars, lambdaVars, restVars>>

\* The promise of loadEndpoints() settles.
loadEndpointsSettles ==
  /\ loadEndpointsP.state = "pending"
  /\ \E r \in {loadEndpoints} :
       /\ loadEndpointsP' = r.p
       /\ requireCache' = r.cache
       /\ nextId' = r.nid
  /\ UNCHANGED <<apisRootExists, apiSpecs, endpointsRootExists, endpointDirs,
                 deployPc, loadApisP>>
  /\ UNCHANGED <<disk, results, lastOp, used, firstSeen, edits, writes>>
  /\ UNCHANGED <<fireVars, pipeVars, cmdVars, lambdaVars, restVars>>

\* Promise.all of the two loads resolved: .spread((apis, endpoints) => ...) runs
\* and the loadIntegrations step starts.
deployLoaded ==
  /\ deployPc = "loading"
  /\ loadApisP.state = "resolved"
  /\ loadEndpointsP.state = "resolved"
  /\ deployPc' = "loadIntegrations"
  /\ trace' = Append(trace, [kind |-> "fired", name |-> "loadIntegrations"])
  /\ UNCHANGED <<apisRootExists, apiSpecs, endpointsRootExists, endpointDirs,
                 loadApisP, loadEndpointsP>>
  /\ UNCHANGED <<integrationResults, exposingApis, injectors, applyCalls, applyDone,
                 writers, addCalls, addDone, apiEndpoints, publishFails, publishCalls,
                 publishDone, deployValue>>
  /\ UNCHANGED <<fireVars, mergeVars, cmdVars, lambdaVars, restVars>>

\* Promise.all of the two loads rejected (one of them did): deploy rejects.
deployRejected ==
  /\ deployPc = "loading"
  /\ "rejected" \in {loadApisP.state, loadEndpointsP.state}
  /\ deployPc' = "rejected"
  /\ UNCHANGED <<apisRootExists, apiSpecs, endpointsRootExists, endpointDirs,
                 loadApisP, loadEndpointsP>>
  /\ UNCHANGED <<fireVars, mergeVars, pipeVars, cmdVars, lambdaVars, restVars>>

\* The plugins registered when deploy starts: none, one whose hook passes its
\* arguments on, or one whose hook for a load event rejects.
LoadPluginLists ==
  {<<>>, <<[hooks |-> TRUE, on |-> "afterEndpointsLoad", act |-> "pass"]>>}
    \cup {<<[hooks |-> TRUE, on |-> e, act |-> "reject"]>> :
            e \in {"beforeApisLoad", "beforeEndpointsLoad", "afterEndpointLoad"}}

\* The directories of S and all their parents.
PrefixClosure(S) == UNION {{SubSeq(d, 1, n) : n \in 1..Len(d)} : d \in S}

\* The spec.json a directory of endpoints/ may hold.
EndpointFiles ==
  {MissingFile, [state |-> "malformed", doc |-> EmptyDoc],
   [state |-> "ok", doc |-> Doc(Scalar(1), NoVal, Map200(1))]}

InitLoad ==
  /\ plugins \in LoadPluginLists
  /\ firePc = "idle" /\ fireEvent = "" /\ fireOrig = <<>> /\ fireArgs = <<>>
  /\ fireI = 1 /\ fireCalls = <<>> /\ fireSettled = 0 /\ fireSeen = <<>>
  /\ fireStart = <<>>
  /\ MergeIdle
  /\ apisRootExists \in BOOLEAN
  /\ apiSpecs \in [ApiIds -> {"absent", "ok", "nospec", "malformed"}]
  /\ apiSpecs["front"] \in {"absent", "ok"}
  /\ ~apisRootExists => \A a \in ApiIds : apiSpecs[a] = "absent"
  /\ endpointsRootExists \in BOOLEAN
  /\ \E S \in SUBSET CandidateDirs :
       /\ Cardinality(S) <= MaxEndpointDirs
       /\ ~endpointsRootExists => S = {}
       /\ endpointDirs = PrefixClosure(S)
  /\ \E bad \in {<<>>} \cup (endpointDirs \cap {<<"a">>}), f \in EndpointFiles :
       /\ ~endpointsRootExists => f = MissingFile
       /\ disk = [d \in Dirs |-> IF d = bad THEN f ELSE MissingFile]
  /\ deployPc = "idle"
  /\ loadApisP = NoPromise
  /\ loadEndpointsP = NoPromise
  /\ PipeIdle
  /\ CmdIdle
  /\ LambdaIdle
  /\ RestIdle

NextLoad ==
  \/ deploy
  \/ loadApisSettles
  \/ loadEndpointsSettles
  \/ deployLoaded
  \/ deployRejected

-----------------------------------------------------------------------------
(* Deploy after the loads: loadIntegrations, addIntegrationDataToEndpoints *)

\* What deploy holds after Promise.all([loadApis(), loadEndpoints()]).
Apis == loadApisP.value
EndpointsDefined == loadEndpointsP.isList
Endpoints == loadEndpointsP.value

\* Entries of the history: a hook fired, a hook's promise settled, an operation
\* of a step called.
Fired(eventName) == [kind |-> "fired", name |-> eventName]
HookResolved(eventName) == [kind |-> "resolved", name |-> eventName]
HookRejected(eventName) == [kind |-> "rejected", name |-> eventName]
Called(operation) == [kind |-> "called", name |-> operation]

loadVarsButPc == <<apisRootExists, apiSpecs, endpointsRootExists, endpointDirs,
                   loadApisP, loadEndpointsP>>

\* Mutant: deploy goes on to the publication after a hook rejected.
hookRejectsDeploy_goesOn(eventName) ==
  /\ deployPc' = "beforePublishAllApis"
  /\ trace' = Append(trace, HookRejected(eventName))

\* deploy() rejects when the hook of eventName rejects.
hookRejectsDeploy(eventName) ==
  /\ deployPc' = "rejected"
  /\ trace' = Append(trace, HookRejected(eventName))

\* loadIntegrations(region, stage, environment): the promise of
\* lager.fire('loadIntegrations', ...) settles; its second argument is the
\* list the hooks filled. Then addIntegrationDataToEndpoints is called and
\* fires its first hook.
loadIntegrations ==
  /\ deployPc = "loadIntegrations"
  /\ IF fireResolves("loadIntegrations", <<"config", <<>>>>)
       THEN /\ injectors' = integrationResults
            /\ deployPc' = "beforeAddIntegrationDataToEndpoints"
            /\ trace' = trace \o <<HookResolved("loadIntegrations"),
                                   Fired("beforeAddIntegrationDataToEndpoints")>>
       ELSE /\ hookRejectsDeploy("loadIntegrations")
            /\ UNCHANGED injectors
  /\ UNCHANGED <<integrationResults, exposingApis, applyCalls, applyDone, writers,
                 addCalls, addDone, apiEndpoints, publishFails, publishCalls,
                 publishDone, deployValue>>
  /\ UNCHANGED <<fireVars, mergeVars, loadVarsButPc, cmdVars, lambdaVars, restVars>>

\* The pairs of two lists, the first list varying slowest: the order in which
\* Promise.map(outer, o => Promise.map(inner, i => ...)) calls its mapper.
RECURSIVE Pairs(_, _, _)
Pairs(outerLen, innerLen, o) ==
  IF o > outerLen THEN <<>>
  ELSE [i \in 1..innerLen |-> <<o, i>>] \o Pairs(outerLen, innerLen, o + 1)

\* The (injector, endpoint) pairs of the two Promise.map of
\* addIntegrationDataToEndpoints.
ApplyPairs ==
  IF EndpointsDefined THEN Pairs(Len(injectors), Len(Endpoints), 1) ELSE <<>>

\* Promise.map(endpoints, ...) rejects when endpoints is no list.
MapOverEndpointsFails(outerLen) == ~EndpointsDefined /\ outerLen > 0

\* The beforeAddIntegrationDataToEndpoints hooks settle; the two Promise.map
\* start.
addIntegrationDataToEndpoints ==
  /\ deployPc = "beforeAddIntegrationDataToEndpoints"
  /\ IF fireResolves("beforeAddIntegrationDataToEndpoints", <<Endpoints, injectors>>)
       THEN /\ deployPc' = "applying"
            /\ trace' = Append(trace, HookResolved("beforeAddIntegrationDataToEndpoints"))
       ELSE hookRejectsDeploy("beforeAddIntegrationDataToEndpoints")
  /\ UNCHANGED <<integrationResults, exposingApis, injectors, applyCalls, applyDone,
                 writers, addCalls, addDone, apiEndpoints, publishFails, publishCalls,
                 publishDone, deployValue>>
  /\ UNCHANGED <<fireVars, mergeVars, loadVarsButPc, cmdVars, lambdaVars, restVars>>

\* The mapper calls integrationDataInjector.applyToEndpoint(endpoint) for the
\* next pair.
applyToEndpointCalled ==
  /\ deployPc = "applying"
  /\ Len(applyCalls) < Len(ApplyPairs)
  /\ applyCalls' = Append(applyCalls, ApplyPairs[Len(applyCalls) + 1])
  /\ trace' = Append(trace, Called("applyToEndpoint"))
  /\ UNCHANGED <<integrationResults, exposingApis, injectors, applyDone, writers,
                 addCalls, addDone, apiEndpoints, publishFails, publishCalls,
                 publishDone, deployValue>>
  /\ UNCHANGED <<fireVars, mergeVars, loadVars, cmdVars, lambdaVars, restVars>>

\* An applyToEndpoint call finishes: the injector has written its data into
\* the specification of the endpoint.
applyToEndpointDone(c) ==
  /\ c \in 1..Len(applyCalls)
  /\ c \notin applyDone
  /\ applyDone' = applyDone \cup {c}
  /\ writers' = [writers EXCEPT ![applyCalls[c][2]] = @ \cup {applyCalls[c][1]}]
  /\ UNCHANGED <<integrationResults, exposingApis, injectors, applyCalls,
                 addCalls, addDone, apiEndpoints, publishFails, publishCalls,
                 publishDone, deployValue, trace>>
  /\ UNCHANGED <<fireVars, mergeVars, loadVars, cmdVars, lambdaVars, restVars>>

\* The two Promise.map have settled: .then(() => lager.fire(
\* 'afterAddIntegrationDataToEndpoints', ...)) runs, or deploy rejects.
addIntegrationDataMapped ==
  /\ deployPc = "applying"
  /\ Len(applyCalls) = Len(ApplyPairs)
  /\ applyDone = 1..Len(applyCalls)
  /\ IF MapOverEndpointsFails(Len(injectors))
       THEN /\ deployPc' = "rejected"
            /\ UNCHANGED trace
       ELSE /\ deployPc' = "afterAddIntegrationDataToEndpoints"
            /\ trace' = Append(trace, Fired("afterAddIntegrationDataToEndpoints"))
  /\ UNCHANGED <<integrationResults, exposingApis, injectors, applyCalls, applyDone,
                 writers, addCalls, addDone, apiEndpoints, publishFails, publishCalls,
                 publishDone, deployValue>>
  /\ UNCHANGED <<fireVars, mergeVars, loadVarsButPc, cmdVars, lambdaVars, restVars>>

-----------------------------------------------------------------------------
(* Deploy after the loads: addEndpointsToApis, publishAllApis *)

\* endpoint.belongsToApi(apiIdentifier), for the endpoint at position k of the
\* loaded list.
belongsToApi(k, apiIdentifier) == apiIdentifier \in exposingApis[k]

\* api.doesExposeEndpoint(endpoint), for the API and the endpoint at these
\* positions of the loaded lists: the specification of the endpoint declares
\* the identifier of the API.
doesExposeEndpoint(a, k) == belongsToApi(k, Apis[a].identifier)

\* Mutant: addEndpoint is called for every pair, exposed or not.
SelectPairs_everyPair(pairs) == pairs

RECURSIVE SelectPairs(_)
SelectPairs(pairs) ==
  IF pairs = <<>> THEN <<>>
  ELSE IF doesExposeEndpoint(Head(pairs)[1], Head(pairs)[2])
    THEN <<Head(pairs)>> \o SelectPairs(Tail(pairs))
    ELSE SelectPairs(Tail(pairs))

\* The (api, endpoint) pairs addEndpointsToApis calls api.addEndpoint for.
AddPairs ==
  IF EndpointsDefined THEN SelectPairs(Pairs(Len(Apis), Len(Endpoints), 1)) ELSE <<>>

\* The afterAddIntegrationDataToEndpoints hooks settle; deploy goes on to
\* addEndpointsToApis, which fires its first hook.
addIntegrationDataDone ==
  /\ deployPc = "afterAddIntegrationDataToEndpoints"
  /\ IF fireResolves("afterAddIntegrationDataToEndpoints", <<Endpoints, injectors>>)
       THEN /\ deployPc' = "beforeAddEndpointsToApis"
            /\ trace' = trace \o <<HookResolved("afterAddIntegrationDataToEndpoints"),
                                   Fired("beforeAddEndpointsToApis")>>
       ELSE hookRejectsDeploy("afterAddIntegrationDataToEndpoints")
  /\ UNCHANGED <<integrationResults, exposingApis, injectors, applyCalls, applyDone,
                 writers, addCalls, addDone, apiEndpoints, publishFails, publishCalls,
                 publishDone, deployValue>>
  /\ UNCHANGED <<fireVars, mergeVars, loadVarsButPc, cmdVars, lambdaVars, restVars>>

\* The beforeAddEndpointsToApis hooks settle; the two Promise.map start.
addEndpointsToApis ==
  /\ deployPc = "beforeAddEndpointsToApis"
  /\ IF fireResolves("beforeAddEndpointsToApis", <<Apis, Endpoints>>)
       THEN /\ deployPc' = "adding"
            /\ trace' = Append(trace, HookResolved("beforeAddEndpointsToApis"))
       ELSE hookRejectsDeploy("beforeAddEndpointsToApis")
  /\ UNCHANGED <<integrationResults, exposingApis, injectors, applyCalls, applyDone,
                 writers, addCalls, addDone, apiEndpoints, publishFails, publishCalls,
                 publishDone, deployValue>>
  /\ UNCHANGED <<fireVars, mergeVars, loadVarsButPc, cmdVars, lambdaVars, restVars>>

\* The mapper calls api.addEndpoint(endpoint) for the next exposing pair.
addEndpointCalled ==
  /\ deployPc = "adding"
  /\ Len(addCalls) < Len(AddPairs)
  /\ addCalls' = Append(addCalls, AddPairs[Len(addCalls) + 1])
  /\ trace' = Append(trace, Called("addEndpoint"))
  /\ UNCHANGED <<integrationResults, exposingApis, injectors, applyCalls, applyDone,
                 writers, addDone, apiEndpoints, publishFails, publishCalls,
                 publishDone, deployValue>>
  /\ UNCHANGED <<fireVars, mergeVars, loadVars, cmdVars, lambdaVars, restVars>>

\* An addEndpoint call finishes: the endpoint is in the endpoints of the API.
addEndpointDone(c) ==
  /\ c \in 1..Len(addCalls)
  /\ c \notin addDone
  /\ addDone' = addDone \cup {c}
  /\ apiEndpoints' = [apiEndpoints EXCEPT ![addCalls[c][1]] =
                        IF belongsToApi(addCalls[c][2], Apis[addCalls[c][1]].identifier)
                          THEN @ \cup {addCalls[c][2]} ELSE @]
  /\ UNCHANGED <<integrationResults, exposingApis, injectors, applyCalls, applyDone,
                 writers, addCalls, publishFails, publishCalls, publishDone,
                 deployValue, trace>>
  /\ UNCHANGED <<fireVars, mergeVars, loadVars, cmdVars, lambdaVars, restVars>>

\* The two Promise.map have settled: .then(() => lager.fire(
\* 'afterAddEndpointsToApis', ...)) runs, or deploy rejects.
addEndpointsMapped ==
  /\ deployPc = "adding"
  /\ Len(addCalls) = Len(AddPairs)
  /\ addDone = 1..Len(addCalls)
  /\ IF MapOverEndpointsFails(Len(Apis))
       THEN /\ deployPc' = "rejected"
            /\ UNCHANGED trace
       ELSE /\ deployPc' = "afterAddEndpointsToApis"
            /\ trace' = Append(trace, Fired("afterAddEndpointsToApis"))
  /\ UNCHANGED <<integrationResults, exposingApis, injectors, applyCalls, applyDone,
                 writers, addCalls, addDone, apiEndpoints, publishFails, publishCalls,
                 publishDone, deployValue>>
  /\ UNCHANGED <<fireVars, mergeVars, loadVarsButPc, cmdVars, lambdaVars, restVars>>

\* The afterAddEndpointsToApis hooks settle; deploy goes on to publishAllApis,
\* which fires its first hook.
addEndpointsDone ==
  /\ deployPc = "afterAddEndpointsToApis"
  /\ IF fireResolves("afterAddEndpointsToApis", <<Apis, Endpoints>>)
       THEN /\ deployPc' = "beforePublishAllApis"
            /\ trace' = trace \o <<HookResolved("afterAddEndpointsToApis"),
                                   Fired("beforePublishAllApis")>>
       ELSE hookRejectsDeploy("afterAddEndpointsToApis")
  /\ UNCHANGED <<integrationResults, exposingApis, injectors, applyCalls, applyDone,
                 writers, addCalls, addDone, apiEndpoints, publishFails, publishCalls,
                 publishDone, deployValue>>
  /\ UNCHANGED <<fireVars, mergeVars, loadVarsButPc, cmdVars, lambdaVars, restVars>>

\* The beforePublishAllApis hooks settle; Promise.map(apis, ...) starts.
publishAllApis ==
  /\ deployPc = "beforePublishAllApis"
  /\ IF fireResolves("beforePublishAllApis", <<Apis>>)
       THEN /\ deployPc' = "publishing"
            /\ trace' = Append(trace, HookResolved("beforePublishAllApis"))
       ELSE hookRejectsDeploy("beforePublishAllApis")
  /\ UNCHANGED <<integrationResults, exposingApis, injectors, applyCalls, applyDone,
                 writers, addCalls, addDone, apiEndpoints, publishFails, publishCalls,
                 publishDone, deployValue>>
  /\ UNCHANGED <<fireVars, mergeVars, loadVarsButPc, cmdVars, lambdaVars, restVars>>

\* The mapper calls api.publish(region, stage, environment) for the next API.
publishCalled ==
  /\ deployPc = "publishing"
  /\ Len(publishCalls) < Len(Apis)
  /\ publishCalls' = Append(publishCalls, Len(publishCalls) + 1)
  /\ trace' = Append(trace, Called("publish"))
  /\ UNCHANGED <<integrationResults, exposingApis, injectors, applyCalls, applyDone,
                 writers, addCalls, addDone, apiEndpoints, publishFails, publishDone,
                 deployValue>>
  /\ UNCHANGED <<fireVars, mergeVars, loadVars, cmdVars, lambdaVars, restVars>>

\* A publish call settles. Resolved, its .then fires afterPublishAllApis;
\* rejected, or with a rejecting hook, the promise of the map and deploy
\* reject, the other calls going on.
publishSettles(c) ==
  /\ deployPc \in {"publishing", "rejected"}
  /\ c \in 1..Len(publishCalls)
  /\ c \notin publishDone
  /\ publishDone' = publishDone \cup {c}
  /\ IF Apis[publishCalls[c]].identifier \in publishFails
       THEN /\ deployPc' = "rejected"
            /\ UNCHANGED trace
       ELSE /\ trace' = Append(trace, Fired("afterPublishAllApis"))
            /\ deployPc' = IF fireResolves("afterPublishAllApis", <<Apis>>)
                             THEN deployPc ELSE "rejected"
  /\ UNCHANGED <<integrationResults, exposingApis, injectors, applyCalls, applyDone,
                 writers, addCalls, addDone, apiEndpoints, publishFails, publishCalls,
                 deployValue>>
  /\ UNCHANGED <<fireVars, mergeVars, loadVarsButPc, cmdVars, lambdaVars, restVars>>

\* .spread((apis) => Promise.resolve(apis)) on the results of the map: the
\* callback gets the results as its arguments and resolves with the first.
spreadApis(mapped) ==
  IF mapped = <<>> THEN Undefined ELSE mapped[1]

\* What the mapper of publishAllApis resolves with for every API: the value of
\* lager.fire('afterPublishAllApis', apis), the list of its arguments.
publishMapped ==
  [c \in 1..Len(Apis) |->
     ListValue(fireSettles(plugins, "afterPublishAllApis",
                           <<ListValue([a \in 1..Len(Apis) |-> ApiValue(Apis[a])])>>).args)]

\* Every publish and its hooks resolved: publishAllApis and deploy resolve.
publishAllApisDone ==
  /\ deployPc = "publishing"
  /\ Len(publishCalls) = Len(Apis)
  /\ publishDone = 1..Len(publishCalls)
  /\ deployPc' = "resolved"
  /\ deployValue' = spreadApis(publishMapped)
  /\ UNCHANGED <<integrationResults, exposingApis, injectors, applyCalls, applyDone,
                 writers, addCalls, addDone, apiEndpoints, publishFails, publishCalls,
                 publishDone, trace>>
  /\ UNCHANGED <<fireVars, mergeVars, loadVarsButPc, cmdVars, lambdaVars, restVars>>

-----------------------------------------------------------------------------
(* Deploy: the whole of it, over small projects *)

\* The events deploy fires after the loads.
DeployEvents ==
  {"loadIntegrations", "beforeAddIntegrationDataToEndpoints",
   "afterAddIntegrationDataToEndpoints", "beforeAddEndpointsToApis",
   "afterAddEndpointsToApis", "beforePublishAllApis", "afterPublishAllApis"}

\* The plugins registered when deploy starts: none, one whose hook passes its
\* arguments on, or one whose hook for an event of deploy rejects.
DeployPluginLists ==
  {<<>>, <<[hooks |-> TRUE, on |-> "beforePublishAllApis", act |-> "pass"]>>}
    \cup {<<[hooks |-> TRUE, on |-> e, act |-> "reject"]>> : e \in DeployEvents}

\* The trees under endpoints/ of the projects deployed.
DeployEndpointDirs ==
  {{}, {<<"a">>, <<"a", "GET">>}, {<<"a">>, <<"a", "GET">>, <<"a", "POST">>}}

\* The directories of the tree an endpoint is loaded from.
MethodDirs(dirs) == {d \in dirs : d[Len(d)] \in HttpMethods}

\* The integration data injectors the plugins can deliver for n endpoints: an
\* injector applies to the endpoints of its integration target.
Injectors(n) == {[applies |-> S] : S \in {{}, {1}, 1..n}}

InjectorLists(n) == UNION {[1..m -> Injectors(n)] : m \in 0..MaxInjectors}

InitDeploy ==
  /\ plugins \in DeployPluginLists
  /\ firePc = "idle" /\ fireEvent = "" /\ fireOrig = <<>> /\ fireArgs = <<>>
  /\ fireI = 1 /\ fireCalls = <<>> /\ fireSettled = 0 /\ fireSeen = <<>>
  /\ fireStart = <<>>
  /\ MergeIdle
  /\ apisRootExists = TRUE
  /\ apiSpecs \in [ApiIds -> {"absent", "ok"}] \cup {[back |-> "malformed", front |-> "ok"]}
  /\ endpointsRootExists = TRUE
  /\ endpointDirs \in DeployEndpointDirs
  /\ \E f \in EndpointFiles : disk = [d \in Dirs |-> IF d = <<>> THEN f ELSE MissingFile]
  /\ deployPc = "idle"
  /\ loadApisP = NoPromise
  /\ loadEndpointsP = NoPromise
  /\ integrationResults \in InjectorLists(Cardinality(MethodDirs(endpointDirs)))
  /\ exposingApis \in [1..Cardinality(MethodDirs(endpointDirs)) ->
                         {{}, {"back"}, {"back", "front"}}]
  /\ injectors = <<>>
  /\ applyCalls = <<>>
  /\ applyDone = {}
  /\ writers = [k \in 1..Cardinality(MethodDirs(endpointDirs)) |-> {}]
  /\ addCalls = <<>>
  /\ addDone = {}
  /\ apiEndpoints = [a \in 1..Cardinality(ApiIds) |-> {}]
  /\ publishFails \in {{}, {"back"}}
  /\ publishCalls = <<>>
  /\ publishDone = {}
  /\ deployValue = Undefined
  /\ trace = <<>>
  \* a rejecting hook or a rejected publish is tried on the full project only
  /\ (plugins # <<>> \/ publishFails # {}) =>
       /\ \A a \in ApiIds : apiSpecs[a] = "ok"
       /\ Cardinality(endpointDirs) = 3
       /\ disk = NoDisk
       /\ integrationResults = <<[applies |-> {1}]>>
       /\ \A k \in DOMAIN exposingApis : exposingApis[k] = {"back"}
  /\ CmdIdle
  /\ LambdaIdle
  /\ RestIdle

NextDeploy ==
  \/ deploy
  \/ loadApisSettles
  \/ loadEndpointsSettles
  \/ deployLoaded
  \/ deployRejected
  \/ loadIntegrations
  \/ addIntegrationDataToEndpoints
  \/ applyToEndpointCalled
  \/ \E c \in 1..(MaxInjectors * 2) : applyToEndpointDone(c)
  \/ addIntegrationDataMapped
  \/ addIntegrationDataDone
  \/ addEndpointsToApis
  \/ addEndpointCalled
  \/ \E c \in 1..(Cardinality(ApiIds) * 2) : addEndpointDone(c)
  \/ addEndpointsMapped
  \/ addEndpointsDone
  \/ publishAllApis
  \/ publishCalled
  \/ \E c \in 1..Cardinality(ApiIds) : publishSettles(c)
  \/ publishAllApisDone

-----------------------------------------------------------------------------
(* deploy-apis command: executeCommand *)

\* The identifiers the APIs of a project can have.
CmdApiIds == 1..MaxApis

\* _.filter(apis, api => parameters.apiIdentifiers.indexOf(api.getIdentifier()) !== -1)
RECURSIVE filterApis(_, _)
filterApis(apis, identifiers) ==
  IF apis = <<>> THEN <<>>
  ELSE IF Head(apis) \in identifiers
         THEN <<Head(apis)>> \o filterApis(Tail(apis), identifiers)
         ELSE filterApis(Tail(apis), identifiers)

\* The entry of `results` of a promise that has not resolved.
NoReport == [api |-> 0, operation |-> "", awsId |-> <<>>, failed |-> ""]

\* What api.deploy(region, context) resolves with: the API and its report. A
\* deploy the provider rejects is recorded in the report, as `failed`.
apiDeploy(identifier) ==
  IF provider[identifier] = "rejected"
    THEN [api |-> identifier, operation |-> "", awsId |-> <<>>,
          failed |-> "rejected by the provider"]
    ELSE [api |-> identifier, operation |-> provider[identifier],
          awsId |-> <<"aws", identifier>>, failed |-> ""]

\* if (result.report.failed): a non-empty string is truthy, undefined is not.
Truthy(s) == s # ""

\* Mutant: the command takes every deployment for a success.
success_always(reports) == TRUE

\* let success = true; _.forEach(results, ... if (result.report.failed) success = false)
success(reports) == \A i \in 1..Len(reports) : ~Truthy(reports[i].failed)

\* Mutant: the deployments are not all awaited.
promiseAll_any(n, resolved) == n = 0 \/ resolved # {}

\* Promise.all(promises) resolves once every one of the n promises has.
promiseAll(n, resolved) == resolved = 1..n

\* executeCommand up to the call of plugin.loadIntegrations: the APIs are
\* loaded and filtered.
executeCommand ==
  /\ cmdPc = "idle"
  /\ cmdApis' = filterApis(projectApis, apiIdentifiers)
  /\ cmdPc' = "loadIntegrations"
  /\ UNCHANGED <<timers, projectApis, apiIdentifiers, provider, integrationsFail, timersFired,
                 cmdDeployed, cmdReports, cmdPublishCalls, cmdPublishDone, exitCode>>
  /\ UNCHANGED <<fireVars, mergeVars, loadVars, pipeVars, lambdaVars, restVars>>

\* The 35 seconds between two deployments, in milliseconds.
Backoff == 35000

\* Mutant: delay is not multiplied in.
timerDelay_fixed(delay) == Backoff

\* setTimeout(() => {...}, delay * 35000)
timerDelay(delay) == delay * Backoff

\* plugin.loadIntegrations resolved: one promise per API of the batch, the
\* timers are set (delay * 35000 ms, delay = 0, 1, 2 ...; delay++ after each).
cmdLoadIntegrationsResolves ==
  /\ cmdPc = "loadIntegrations"
  /\ ~integrationsFail
  /\ cmdPc' = "deploying"
  /\ cmdReports' = [i \in 1..Len(cmdApis) |-> NoReport]
  /\ timers' = [timers EXCEPT !.delay = [i \in 1..Len(cmdApis) |-> timerDelay(i - 1)]]
  /\ UNCHANGED <<projectApis, apiIdentifiers, provider, integrationsFail, cmdApis,
                 timersFired, cmdDeployed, cmdPublishCalls, cmdPublishDone, exitCode>>
  /\ UNCHANGED <<fireVars, mergeVars, loadVars, pipeVars, lambdaVars, restVars>>

\* plugin.loadIntegrations rejected: so does the promise of executeCommand.
cmdLoadIntegrationsRejects ==
  /\ cmdPc = "loadIntegrations"
  /\ integrationsFail
  /\ cmdPc' = "rejected"
  /\ UNCHANGED <<timers, projectApis, apiIdentifiers, provider, integrationsFail, cmdApis,
                 timersFired, cmdDeployed, cmdReports, cmdPublishCalls, cmdPublishDone,
                 exitCode>>
  /\ UNCHANGED <<fireVars, mergeVars, loadVars, pipeVars, lambdaVars, restVars>>

\* Time passes while timers are waiting, one backoff at a time.
tick ==
  /\ cmdPc = "deploying"
  /\ timersFired < Len(cmdApis)
  /\ timers.now < timers.delay[Len(cmdApis)]
  /\ timers' = [timers EXCEPT !.now = timers.now + Backoff]
  /\ UNCHANGED <<projectApis, apiIdentifiers, provider, integrationsFail, cmdPc, cmdApis,
                 timersFired, cmdDeployed, cmdReports, cmdPublishCalls, cmdPublishDone,
                 exitCode>>
  /\ UNCHANGED <<fireVars, mergeVars, loadVars, pipeVars, lambdaVars, restVars>>

\* The timers whose callback has run.
TimersRun == {timers.ran[k].timer : k \in 1..Len(timers.ran)}

\* The timers still waiting.
TimersWaiting == (1..Len(timers.delay)) \ TimersRun

\* The waiting timer the event loop runs next: the one that expires first and,
\* of those of one delay, the one that was set first.
IsNextTimer(i) ==
  /\ i \in TimersWaiting
  /\ \A j \in TimersWaiting :
       \/ timers.delay[i] < timers.delay[j]
       \/ timers.delay[i] = timers.delay[j] /\ i <= j

\* The callback of a timer runs, once its delay has elapsed: api.deploy is
\* called on the API the timer was set for.
setTimeoutFires(i) ==
  /\ cmdPc = "deploying"
  /\ IsNextTimer(i)
  /\ timers.delay[i] <= timers.now
  /\ timersFired' = timersFired + 1
  /\ timers' = [timers EXCEPT !.ran = Append(timers.ran, [timer |-> i, at |-> timers.now])]
  /\ UNCHANGED <<projectApis, apiIdentifiers, provider, integrationsFail, cmdPc, cmdApis,
                 cmdDeployed, cmdReports, cmdPublishCalls, cmdPublishDone, exitCode>>
  /\ UNCHANGED <<fireVars, mergeVars, loadVars, pipeVars, lambdaVars, restVars>>

\* An api.deploy in progress resolves, and with it the promise of its API.
apiDeployResolves(i) ==
  /\ cmdPc = "deploying"
  /\ i \in TimersRun
  /\ i \notin cmdDeployed
  /\ cmdDeployed' = cmdDeployed \cup {i}
  /\ cmdReports' = [cmdReports EXCEPT ![i] = apiDeploy(cmdApis[i])]
  /\ UNCHANGED <<timers, projectApis, apiIdentifiers, provider, integrationsFail, cmdPc, cmdApis,
                 timersFired, cmdPublishCalls, cmdPublishDone, exitCode>>
  /\ UNCHANGED <<fireVars, mergeVars, loadVars, pipeVars, lambdaVars, restVars>>

\* The last .spread of executeCommand: the results are displayed, then the
\* APIs are published, or the process exits.
displayResults ==
  /\ cmdPc = "deploying"
  /\ promiseAll(Len(cmdApis), cmdDeployed)
  /\ IF success(cmdReports)
       THEN /\ cmdPublishCalls' = cmdApis
            /\ cmdPc' = "publishing"
            /\ UNCHANGED exitCode
       ELSE /\ exitCode' = 1
            /\ cmdPc' = "exited"
            /\ UNCHANGED cmdPublishCalls
  /\ UNCHANGED <<timers, projectApis, apiIdentifiers, provider, integrationsFail, cmdApis,
                 timersFired, cmdDeployed, cmdReports, cmdPublishDone>>
  /\ UNCHANGED <<fireVars, mergeVars, loadVars, pipeVars, lambdaVars, restVars>>

\* An api.publish in progress resolves.
apiPublishResolves(i) ==
  /\ cmdPc = "publishing"
  /\ i \in 1..Len(cmdPublishCalls)
  /\ i \notin cmdPublishDone
  /\ cmdPublishDone' = cmdPublishDone \cup {i}
  /\ UNCHANGED <<timers, projectApis, apiIdentifiers, provider, integrationsFail, cmdPc, cmdApis,
                 timersFired, cmdDeployed, cmdReports, cmdPublishCalls, exitCode>>
  /\ UNCHANGED <<fireVars, mergeVars, loadVars, pipeVars, lambdaVars, restVars>>

\* Promise.map over the APIs resolved: 'APIs have been published'.
cmdPublished ==
  /\ cmdPc = "publishing"
  /\ promiseAll(Len(cmdPublishCalls), cmdPublishDone)
  /\ cmdPc' = "published"
  /\ UNCHANGED <<timers, projectApis, apiIdentifiers, provider, integrationsFail, cmdApis,
                 timersFired, cmdDeployed, cmdReports, cmdPublishCalls, cmdPublishDone,
                 exitCode>>
  /\ UNCHANGED <<fireVars, mergeVars, loadVars, pipeVars, lambdaVars, restVars>>

\* The projects and parameters of the command: up to MaxApis APIs, all of
\* them selected or all but one, and any answer of the provider to each.
InitCommand ==
  /\ plugins = <<>> /\ firePc = "idle" /\ fireEvent = "" /\ fireOrig = <<>>
  /\ fireArgs = <<>> /\ fireI = 1 /\ fireCalls = <<>> /\ fireSettled = 0
  /\ fireSeen = <<>> /\ fireStart = <<>>
  /\ disk = NoDisk
  /\ MergeIdle
  /\ LoadIdle
  /\ LambdaIdle
  /\ \E n \in 0..MaxApis : projectApis = [i \in 1..n |-> i]
  /\ apiIdentifiers \in {CmdApiIds} \cup {CmdApiIds \ {a} : a \in CmdApiIds}
  /\ provider \in [CmdApiIds -> {"Created", "Updated", "rejected"}]
  /\ integrationsFail \in BOOLEAN
  /\ cmdPc = "idle"
  /\ cmdApis = <<>>
  /\ timersFired = 0
  /\ timers = NoTimers
  /\ cmdDeployed = {}
  /\ cmdReports = <<>>
  /\ cmdPublishCalls = <<>>
  /\ cmdPublishDone = {}
  /\ exitCode = NoExit
  /\ RestIdle

NextCommand ==
  \/ executeCommand
  \/ cmdLoadIntegrationsResolves
  \/ cmdLoadIntegrationsRejects
  \/ tick
  \/ \E i \in 1..MaxApis : setTimeoutFires(i)
  \/ \E i \in 1..MaxApis : apiDeployResolves(i)
  \/ displayResults
  \/ \E i \in 1..MaxApis : apiPublishResolves(i)
  \/ cmdPublished

-----------------------------------------------------------------------------
(* Lambda: deploy, isDeployed *)

LambdaIds == {"f", "g"}

\* context.environment and context.stage; "" is the absent (falsy) value.
Environments == {"", "DEV"}
Stages == {"", "v1"}

\* The names an alias can have: the stages that are not empty.
Aliases == Stages \ {""}

\* (context.environment ? context.environment + '-' : '') + this.identifier,
\* a string as the list of its parts.
functionName(environment, identifier) ==
  (IF Truthy(environment) THEN <<environment, "-">> ELSE <<>>) \o <<identifier>>

FunctionNames == {functionName(e, i) : e \in Environments, i \in LambdaIds}

\* What can go wrong with a call of getFunction whatever the function:
\* nothing, an error with a code, an error without one.
Faults == {"", "AccessDeniedException", "undefined"}

\* The code of the error awsLambda.getFunction(params) answers with, "none"
\* when it answers with the description of the function.
getFunction(params, fault) ==
  IF fault # "" THEN fault
  ELSE IF params \in remoteFunctions THEN "none"
  ELSE "ResourceNotFoundException"

\* Mutant: the existence check takes every error for 'not found'.
isDeployedCatch_swallow(e) == [state |-> "resolved", value |-> FALSE, error |-> ""]

\* .catch(e => { if (e.code !== 'ResourceNotFoundException') { throw e; }
\*               return Promise.resolve(false); })
isDeployedCatch(e) ==
  IF e # "ResourceNotFoundException"
    THEN [state |-> "rejected", value |-> FALSE, error |-> e]
    ELSE [state |-> "resolved", value |-> FALSE, error |-> ""]

\* Mutant: the existence check never finds the function.
isDeployed_never(e) == [state |-> "resolved", value |-> FALSE, error |-> ""]

\* Lambda.prototype.isDeployed, given the answer of getFunction.
isDeployed(e) ==
  IF e = "none" THEN [state |-> "resolved", value |-> TRUE, error |-> ""]
  ELSE isDeployedCatch(e)

\* The code of the error awsLambda.getAlias(params) answers with, "none" when
\* it answers with the description of the alias.
getAlias(name, alias, fault) ==
  IF fault # "" THEN fault
  ELSE IF remoteAliases[name][alias] # 0 THEN "none"
  ELSE "ResourceNotFoundException"

\* Mutant: the alias is never found.
aliasExists_never(e) == [state |-> "resolved", value |-> FALSE, error |-> ""]

\* Lambda.prototype.aliasExists, given the answer of getAlias.
aliasExists(e) ==
  IF e = "none" THEN [state |-> "resolved", value |-> TRUE, error |-> ""]
  ELSE IF e # "ResourceNotFoundException"
    THEN [state |-> "rejected", value |-> FALSE, error |-> e]
    ELSE [state |-> "resolved", value |-> FALSE, error |-> ""]

\* data.FunctionArn and data.AliasArn of the provider's answers.
FunctionArn(name) == <<"arn">> \o name
AliasArn(name, alias) == <<"arn">> \o name \o <<":", alias>>

\* const report = { name: functionName }
newReport(name) ==
  [name |-> name, operation |-> "", arn |-> <<>>, publishedVersion |-> 0,
   aliasExisted |-> "undefined"]

\* Lambda.prototype.deploy up to the call of getFunction.
lambdaDeploy ==
  /\ lambdaPc \in {"idle", "resolved", "rejected"}
  /\ lambdaDeploys < MaxDeploys
  /\ \E identifier \in LambdaIds, environment \in Environments, stage \in Stages :
       /\ lambdaContext' = [environment |-> environment, stage |-> stage]
       /\ FunctionName' = functionName(environment, identifier)
       /\ lambdaReport' = newReport(functionName(environment, identifier))
  /\ lambdaPrev' = [name |-> FunctionName, context |-> lambdaContext,
                    operation |-> lambdaReport.operation, pc |-> lambdaPc]
  /\ lambdaDeploys' = lambdaDeploys + 1
  /\ getFunctionE' = "pending"
  /\ lambdaCalls' = <<>>
  /\ lambdaError' = ""
  /\ lambdaPc' = "isDeployed"
  /\ UNCHANGED <<remoteFunctions, remoteVersions, remoteAliases>>
  /\ UNCHANGED <<fireVars, mergeVars, loadVars, pipeVars, cmdVars, restVars>>

\* getFunction answers; isDeployed settles and the first .then of deploy runs.
isDeployedSettles ==
  /\ lambdaPc = "isDeployed"
  /\ \E fault \in Faults :
       \E e \in {getFunction(FunctionName, fault)} :
         \E r \in {isDeployed(e)} :
           /\ getFunctionE' = e
           /\ IF r.state = "rejected"
                THEN /\ lambdaPc' = "rejected"
                     /\ lambdaError' = r.error
                     /\ UNCHANGED <<lambdaReport, lambdaCalls>>
                ELSE IF r.value
                  THEN /\ lambdaReport' = [lambdaReport EXCEPT !.operation = "Update"]
                       /\ lambdaCalls' = Append(lambdaCalls, "update")
                       /\ lambdaPc' = "update"
                       /\ UNCHANGED lambdaError
                  ELSE /\ lambdaReport' = [lambdaReport EXCEPT !.operation = "Creation"]
                       /\ lambdaCalls' = Append(lambdaCalls, "create")
                       /\ lambdaPc' = "create"
                       /\ UNCHANGED lambdaError
  /\ UNCHANGED <<remoteFunctions, remoteVersions, remoteAliases, lambdaContext,
                 FunctionName, lambdaDeploys, lambdaPrev>>
  /\ UNCHANGED <<fireVars, mergeVars, loadVars, pipeVars, cmdVars, restVars>>

\* The second .then of deploy: setAlias is called if the context has a stage,
\* and calls publishVersion first.
thenDeployed ==
  IF Truthy(lambdaContext.stage)
    THEN /\ lambdaCalls' = Append(lambdaCalls, "publishVersion")
         /\ lambdaPc' = "publishVersion"
         /\ UNCHANGED lambdaReport
    ELSE /\ lambdaReport' = [lambdaReport EXCEPT !.arn = FunctionArn(FunctionName)]
         /\ lambdaPc' = "resolved"
         /\ UNCHANGED lambdaCalls

\* this.update(...) settles.
updateSettles ==
  /\ lambdaPc = "update"
  /\ \E ok \in BOOLEAN :
       IF ok THEN thenDeployed /\ UNCHANGED lambdaError
       ELSE /\ lambdaPc' = "rejected"
            /\ lambdaError' = "UpdateError"
            /\ UNCHANGED <<lambdaReport, lambdaCalls>>
  /\ UNCHANGED <<remoteFunctions, remoteVersions, remoteAliases, lambdaContext,
                 FunctionName, getFunctionE, lambdaDeploys, lambdaPrev>>
  /\ UNCHANGED <<fireVars, mergeVars, loadVars, pipeVars, cmdVars, restVars>>

\* this.create(...) settles: on success the function exists.
createSettles ==
  /\ lambdaPc = "create"
  /\ \E ok \in BOOLEAN :
       IF ok THEN /\ thenDeployed
                  /\ remoteFunctions' = remoteFunctions \cup {FunctionName}
                  /\ UNCHANGED lambdaError
       ELSE /\ lambdaPc' = "rejected"
            /\ lambdaError' = "CreateError"
            /\ UNCHANGED <<remoteFunctions, lambdaReport, lambdaCalls>>
  /\ UNCHANGED <<remoteVersions, remoteAliases, lambdaContext, FunctionName,
                 getFunctionE, lambdaDeploys, lambdaPrev>>
  /\ UNCHANGED <<fireVars, mergeVars, loadVars, pipeVars, cmdVars, restVars>>

\* setAlias: publishVersion settles; on success the first .then records the
\* version and calls aliasExists.
publishVersionSettles ==
  /\ lambdaPc = "publishVersion"
  /\ \E ok \in BOOLEAN :
       IF ok
         THEN /\ remoteVersions' = [remoteVersions EXCEPT ![FunctionName] = @ + 1]
              /\ lambdaReport' = [lambdaReport EXCEPT
                                    !.publishedVersion = remoteVersions[FunctionName] + 1]
              /\ lambdaCalls' = Append(lambdaCalls, "aliasExists")
              /\ lambdaPc' = "aliasExists"
              /\ UNCHANGED lambdaError
         ELSE /\ lambdaPc' = "rejected"
              /\ lambdaError' = "PublishVersionError"
              /\ UNCHANGED <<remoteVersions, lambdaReport, lambdaCalls>>
  /\ UNCHANGED <<remoteFunctions, remoteAliases, lambdaContext, FunctionName,
                 getFunctionE, lambdaDeploys, lambdaPrev>>
  /\ UNCHANGED <<fireVars, mergeVars, loadVars, pipeVars, cmdVars, restVars>>

\* setAlias: getAlias answers, aliasExists settles and the .spread runs.
aliasExistsSettles ==
  /\ lambdaPc = "aliasExists"
  /\ \E fault \in Faults :
       \E e \in {getAlias(FunctionName, lambdaContext.stage, fault)} :
         \E r \in {aliasExists(e)} :
           IF r.state = "rejected"
             THEN /\ lambdaPc' = "rejected"
                  /\ lambdaError' = r.error
                  /\ UNCHANGED <<lambdaReport, lambdaCalls>>
             ELSE IF r.value
               THEN /\ lambdaReport' = [lambdaReport EXCEPT !.aliasExisted = "true"]
                    /\ lambdaCalls' = Append(lambdaCalls, "updateAlias")
                    /\ lambdaPc' = "updateAlias"
                    /\ UNCHANGED lambdaError
               ELSE /\ lambdaReport' = [lambdaReport EXCEPT !.aliasExisted = "false"]
                    /\ lambdaCalls' = Append(lambdaCalls, "createAlias")
                    /\ lambdaPc' = "createAlias"
                    /\ UNCHANGED lambdaError
  /\ UNCHANGED <<remoteFunctions, remoteVersions, remoteAliases, lambdaContext,
                 FunctionName, getFunctionE, lambdaDeploys, lambdaPrev>>
  /\ UNCHANGED <<fireVars, mergeVars, loadVars, pipeVars, cmdVars, restVars>>

\* setAlias: updateAlias or createAlias settles, called with the version
\* publishVersion answered; the last .then records the ARN of the alias.
aliasSettles ==
  /\ lambdaPc \in {"updateAlias", "createAlias"}
  /\ \E ok \in BOOLEAN :
       IF ok
         THEN /\ remoteAliases' = [remoteAliases EXCEPT
                                     ![FunctionName][lambdaContext.stage] =
                                        lambdaReport.publishedVersion]
              /\ lambdaReport' = [lambdaReport EXCEPT
                                    !.arn = AliasArn(FunctionName, lambdaContext.stage)]
              /\ lambdaPc' = "resolved"
              /\ UNCHANGED lambdaError
         ELSE /\ lambdaPc' = "rejected"
              /\ lambdaError' = "AliasError"
              /\ UNCHANGED <<remoteAliases, lambdaReport>>
  /\ UNCHANGED <<remoteFunctions, remoteVersions, lambdaContext, FunctionName,
                 getFunctionE, lambdaCalls, lambdaDeploys, lambdaPrev>>
  /\ UNCHANGED <<fireVars, mergeVars, loadVars, pipeVars, cmdVars, restVars>>

\* Any set of functions may exist in AWS before the first deploy, all of them
\* with a version 1 that every alias points to, or none with a version.
InitLambda ==
  /\ plugins = <<>> /\ firePc = "idle" /\ fireEvent = "" /\ fireOrig = <<>>
  /\ fireArgs = <<>> /\ fireI = 1 /\ fireCalls = <<>> /\ fireSettled = 0
  /\ fireSeen = <<>> /\ fireStart = <<>>
  /\ disk = NoDisk
  /\ MergeIdle
  /\ LoadIdle
  /\ CmdIdle
  /\ remoteFunctions \in SUBSET FunctionNames
  /\ \E v \in {0, 1} :
       /\ remoteVersions = [n \in FunctionNames |-> IF n \in remoteFunctions THEN v ELSE 0]
       /\ remoteAliases = [n \in FunctionNames |->
                             [a \in Aliases |-> IF n \in remoteFunctions THEN v ELSE 0]]
  /\ lambdaPc = "idle"
  /\ lambdaContext = [environment |-> "", stage |-> ""]
  /\ FunctionName = <<>>
  /\ getFunctionE = ""
  /\ lambdaReport = newReport(<<>>)
  /\ lambdaCalls = <<>>
  /\ lambdaError = ""
  /\ lambdaDeploys = 0
  /\ lambdaPrev = NoPrev
  /\ RestIdle

NextLambda ==
  \/ lambdaDeploy
  \/ isDeployedSettles
  \/ updateSettles
  \/ createSettles
  \/ publishVersionSettles
  \/ aliasExistsSettles
  \/ aliasSettles

-----------------------------------------------------------------------------
(* deploy-lambdas command: executeCommand *)

\* The codes of the errors of the provider, and what the error has as
\* `cause`: nothing, an object without message, an object with a message.
\* Bluebird's promisify gives a cause to the plain errors it wraps; an error
\* of a call that is not promisified reaches the command as it was thrown.
ErrorCodes == {"AccessDeniedException", "ThrottlingException"}
Causes == {"undefined", "nomessage", "message"}
DeployErrors == [code : ErrorCodes, cause : Causes]

\* e.code === 'AccessDeniedException' && e.cause && e.cause.message
isAccessDenied(e) ==
  e.code = "AccessDeniedException" /\ e.cause # "undefined" /\ e.cause = "message"

\* The four lines the catch prints before process.exit(1).
Explanation ==
  <<"Insufficient permissions to perform the action",
    "The IAM user/role you are using to perform this action does not have sufficient permissions.",
    "e.cause.message",
    "Please update the policies of the user/role before trying again.">>

\* if (!parameters.all) lambdas = _.filter(lambdas, ... indexOf(identifier) !== -1)
dlFilter(lambdas, all, identifiers) ==
  IF all THEN lambdas ELSE filterApis(lambdas, identifiers)

\* executeCommand: loadLambdas resolved, the lambdas are filtered and
\* Promise.map calls lambda.deploy on each of them.
dlExecuteCommand ==
  /\ dl.pc = "idle"
  /\ dl' = [dl EXCEPT !.pc = "deploying",
                      !.batch = dlFilter(dl.lambdas, dl.all, dl.identifiers)]
  /\ UNCHANGED otherThanDl

\* A lambda.deploy settles. The promise of Promise.map rejects with the first
\* rejection and resolves when every deploy has resolved.
dlDeploySettles(i) ==
  /\ dl.pc \in {"deploying", "rejected"}
  /\ i \in 1..Len(dl.batch)
  /\ i \notin dl.settled
  /\ dl' = [dl EXCEPT !.settled = @ \cup {i},
                      !.map = IF @.state # "pending" THEN @
                              ELSE IF dl.outcome[dl.batch[i]].code # "ok"
                                THEN [state |-> "rejected", error |-> dl.outcome[dl.batch[i]]]
                              ELSE IF dl.settled \cup {i} = 1..Len(dl.batch)
                                THEN [state |-> "resolved", error |-> NoErr]
                              ELSE @]
  /\ UNCHANGED otherThanDl

\* .then(reports => icli.print(genReportsTable(reports)))
dlPrintReports ==
  /\ dl.pc = "deploying"
  /\ dl.map.state = "resolved" \/ dl.batch = <<>>
  /\ dl' = [dl EXCEPT !.pc = "resolved", !.printed = Append(@, "reports")]
  /\ UNCHANGED otherThanDl

\* .catch(e => ...): the explanation and process.exit(1), or the error again.
dlCatch ==
  /\ dl.pc = "deploying"
  /\ dl.map.state = "rejected"
  /\ IF isAccessDenied(dl.map.error)
       THEN dl' = [dl EXCEPT !.pc = "exited", !.exit = 1,
                             !.printed = @ \o Explanation]
       ELSE dl' = [dl EXCEPT !.pc = "rejected", !.error = dl.map.error]
  /\ UNCHANGED otherThanDl

\* Up to MaxLambdas lambdas, all of them deployed or those selected, each
\* deploy resolving or rejecting with any of the errors.
InitDeployLambdas ==
  /\ FireIdle
  /\ disk = NoDisk
  /\ MergeIdle
  /\ LoadIdle
  /\ CmdIdle
  /\ LambdaIdle
  /\ view = ViewIdle /\ cors = CorsIdle /\ step = StepIdle
  /\ \E n \in 0..MaxLambdas,
        sel \in {[all |-> TRUE, identifiers |-> {}]}
                  \cup {[all |-> FALSE, identifiers |-> 1..k] : k \in 1..MaxLambdas},
        outcome \in [1..MaxLambdas -> {NoErr} \cup DeployErrors] :
       dl = [DlIdle EXCEPT !.lambdas = [i \in 1..n |-> i],
                           !.all = sel.all,
                           !.identifiers = sel.identifiers,
                           !.outcome = outcome]

NextDeployLambdas ==
  \/ dlExecuteCommand
  \/ \E i \in 1..MaxLambdas : dlDeploySettles(i)
  \/ dlPrintReports
  \/ dlCatch

-----------------------------------------------------------------------------
(* Views of an endpoint specification: getEndpointSpec *)

\* The fields a merged endpoint specification can have: those of the
\* documentation only, those private to the provider, those of both.
DocOnlyFields == {"summary", "description"}
ProviderFields == {"x-amazon-apigateway-auth", "x-amazon-apigateway-integration"}
CommonFields == {"parameters", "responses"}
FieldOrder ==
  <<"summary", "description", "parameters", "responses",
    "x-amazon-apigateway-auth", "x-amazon-apigateway-integration">>

\* The values of --spec-version, and the absent argument.
SpecVersions == {"doc", "aws", "complete"}

\* endpoint.getSpec(view): 'doc' strips the fields private to the provider,
\* 'aws' the fields of the documentation only, 'complete' nothing; without
\* argument the view is the provider's.
getSpec(spec, v) ==
  IF v = "doc" THEN spec \ ProviderFields
  ELSE IF v = "complete" THEN spec
  ELSE spec \ DocOnlyFields

\* JSON.stringify(spec, null, 2): the fields present, in the order of the keys.
RECURSIVE stringifyFrom(_, _)
stringifyFrom(spec, i) ==
  IF i > Len(FieldOrder) THEN <<>>
  ELSE (IF FieldOrder[i] \in spec THEN <<FieldOrder[i]>> ELSE <<>>)
         \o stringifyFrom(spec, i + 1)

stringify(spec) == stringifyFrom(spec, 1)

\* getEndpointSpec(method, resourcePath, type, colors): loadEndpoint resolves
\* with the endpoint, and the text of endpoint.getSpec() is returned.
getEndpointSpec(type) ==
  /\ view.pc \in {"idle", "resolved"}
  /\ view' = [view EXCEPT !.pc = "resolved", !.type = type,
                          !.json = stringify(getSpec(view.spec, "undefined"))]
  /\ UNCHANGED otherThanView

\* The endpoint on disk has any of the fields.
InitInspect ==
  /\ FireIdle
  /\ disk = NoDisk
  /\ MergeIdle
  /\ LoadIdle
  /\ CmdIdle
  /\ LambdaIdle
  /\ dl = DlIdle /\ cors = CorsIdle /\ step = StepIdle
  /\ \E spec \in SUBSET (DocOnlyFields \cup ProviderFields \cup CommonFields) :
       view = [ViewIdle EXCEPT !.spec = spec]

NextInspect == \E type \in SpecVersions \cup {"undefined"} : getEndpointSpec(type)

-----------------------------------------------------------------------------
(* CORS plugin: the afterAddEndpointsToApi hook *)

CorsPaths == {"/a", "/b"}
CorsMethods == {"GET", "OPTIONS"}

\* What require(<endpointsPath>/<resourcePath>/cors) does: the module is
\* missing (MODULE_NOT_FOUND), it loads, or loading it throws another error.
CorsConfigs == {"absent", "ok", "malformed"}

\* An endpoint loaded from the project.
UserEndpoint(resourcePath, method) ==
  [resourcePath |-> resourcePath, method |-> method, synthesized |-> FALSE]

\* new Endpoint(spec, resourcePath, 'OPTIONS')
corsEndpoint(resourcePath) ==
  [resourcePath |-> resourcePath, method |-> "OPTIONS", synthesized |-> TRUE]

\* The endpoint lists of an API: no two endpoints of one path and method.
CorsEndpointLists ==
  {s \in UNION {[1..n -> [resourcePath : CorsPaths, method : CorsMethods,
                          synthesized : {FALSE}]] : n \in 0..MaxCorsEndpoints} :
     \A i, j \in 1..Len(s) : i # j => s[i] # s[j]}

\* _.uniq: the first occurrence of each element, in order.
RECURSIVE uniq(_, _)
uniq(list, seen) ==
  IF list = <<>> THEN <<>>
  ELSE IF Head(list) \in seen
         THEN uniq(Tail(list), seen)
         ELSE <<Head(list)>> \o uniq(Tail(list), seen \cup {Head(list)})

\* _.uniq(_.map(endpoints, e => e.getResourcePath()))
resourcePaths(endpoints) ==
  uniq([i \in 1..Len(endpoints) |-> endpoints[i].resourcePath], {})

\* e.getMethod: the member is read and not called, its value is the function.
getMethodMember(e) == "function getMethod"

\* _.find(endpoints, e => e.getMethod === 'OPTIONS' && e.getResourcePath() === resourcePath)
findOptions(endpoints, resourcePath) ==
  \E i \in 1..Len(endpoints) :
    /\ getMethodMember(endpoints[i]) = "OPTIONS"
    /\ endpoints[i].resourcePath = resourcePath

\* resourcePaths.forEach(resourcePath => {...}): the endpoints api.addEndpoint
\* has been called with when the loop ends or throws.
RECURSIVE corsForEach(_, _, _, _)
corsForEach(paths, endpoints, config, promises) ==
  IF paths = <<>> THEN [thrown |-> FALSE, promises |-> promises]
  ELSE IF findOptions(endpoints, Head(paths))
    THEN corsForEach(Tail(paths), endpoints, config, promises)
    ELSE IF config[Head(paths)] = "malformed"
      THEN [thrown |-> TRUE, promises |-> promises]
      ELSE corsForEach(Tail(paths), endpoints, config,
                       Append(promises, corsEndpoint(Head(paths))))

\* api.addEndpoint(endpoint, allowDuplicateMethodOverride): the endpoint is
\* attached; where the API has an endpoint of that path and method already the
\* call fails, or replaces that endpoint when the flag is set.
apiAddEndpoint(endpoints, endpoint, allowDuplicateMethodOverride) ==
  IF \E i \in 1..Len(endpoints) :
       /\ endpoints[i].resourcePath = endpoint.resourcePath
       /\ endpoints[i].method = endpoint.method
    THEN IF allowDuplicateMethodOverride
           THEN [i \in 1..Len(endpoints) |->
                   IF /\ endpoints[i].resourcePath = endpoint.resourcePath
                      /\ endpoints[i].method = endpoint.method
                     THEN endpoint ELSE endpoints[i]]
           ELSE endpoints
    ELSE Append(endpoints, endpoint)

\* The hook is called on the API: the loop runs, and either throws or hands
\* the promises of the additions to Promise.all.
corsHook ==
  /\ cors.pc = "idle"
  /\ \E r \in {corsForEach(resourcePaths(cors.endpoints), cors.endpoints,
                           cors.config, <<>>)} :
       cors' = [cors EXCEPT !.pc = IF r.thrown THEN "thrown" ELSE "adding",
                            !.promises = r.promises]
  /\ UNCHANGED otherThanCors

\* An addition in progress completes.
corsAddEndpointSettles(i) ==
  /\ cors.pc \in {"adding", "thrown"}
  /\ i \in 1..Len(cors.promises)
  /\ i \notin cors.done
  /\ cors' = [cors EXCEPT !.done = cors.done \cup {i},
                          !.endpoints = apiAddEndpoint(cors.endpoints, cors.promises[i], TRUE)]
  /\ UNCHANGED otherThanCors

\* Promise.all(addEndpointPromises).then(() => api)
corsResolves ==
  /\ cors.pc = "adding"
  /\ promiseAll(Len(cors.promises), cors.done)
  /\ cors' = [cors EXCEPT !.pc = "resolved"]
  /\ UNCHANGED otherThanCors

\* An API with up to MaxCorsEndpoints endpoints, and any cors module per path.
InitCors ==
  /\ FireIdle
  /\ disk = NoDisk
  /\ MergeIdle
  /\ LoadIdle
  /\ CmdIdle
  /\ LambdaIdle
  /\ dl = DlIdle /\ view = ViewIdle /\ step = StepIdle
  /\ \E endpoints \in CorsEndpointLists, config \in [CorsPaths -> CorsConfigs] :
       cors = [CorsIdle EXCEPT !.before = endpoints, !.endpoints = endpoints,
                               !.config = config]

NextCors ==
  \/ corsHook
  \/ \E i \in 1..MaxCorsEndpoints : corsAddEndpointSettles(i)
  \/ corsResolves

-----------------------------------------------------------------------------
(* Deploy steps between their hooks: addIntegrationDataToEndpoints,
   addEndpointsToApis *)

\* The two functions: what they are called with, and which of their lists
\* the outer Promise.map runs over.
StepFunctions == {"addIntegrationDataToEndpoints", "addEndpointsToApis"}

\* The lists a step is called with: 1, 2, ... items.
StepLists == {[k \in 1..n |-> k] : n \in 1..MaxStepItems}

\* What the hooks of an event do with the two lists they are fired with: pass
\* them on, or resolve with another list in place of the first, the second or
\* both.
StepHookActs == {"pass", "replaceFirst", "replaceSecond", "replaceBoth"}

\* lager.fire(eventName, a, b) resolved: the two lists as the hooks left them.
stepFire(act, args) ==
  <<IF act \in {"replaceFirst", "replaceBoth"} THEN <<8>> ELSE args[1],
    IF act \in {"replaceSecond", "replaceBoth"} THEN <<9>> ELSE args[2]>>

\* Promise.map(outer, o => Promise.map(inner, i => ...)): the calls of the
\* inner mapper, as <<api or injector, endpoint>>.
RECURSIVE stepPairs(_, _)
stepPairs(outer, inner) ==
  IF outer = <<>> THEN <<>>
  ELSE [k \in 1..Len(inner) |-> <<Head(outer), inner[k]>>] \o stepPairs(Tail(outer), inner)

\* .spread((endpoints, integrationDataInjectors) => Promise.map(
\* integrationDataInjectors, ... Promise.map(endpoints, ...))) and
\* .spread((apis, endpoints) => Promise.map(apis, ... Promise.map(endpoints, ...))):
\* the parameters of the handler are the lists the 'before' hooks resolved with.
stepMap(fn, lists) ==
  IF fn = "addIntegrationDataToEndpoints"
    THEN stepPairs(lists[2], lists[1])
    ELSE stepPairs(lists[1], lists[2])

\* The function is called: lager.fire('before...', first, second).
stepCall ==
  /\ step.pc = "idle"
  /\ step' = [step EXCEPT !.pc = "before"]
  /\ UNCHANGED otherThanStep

\* The 'before' hooks resolved: the handler of .spread starts the mappers.
stepBeforeResolves ==
  /\ step.pc = "before"
  /\ \E lists \in {stepFire(step.beforeAct, <<step.first, step.second>>)} :
       step' = [step EXCEPT !.pc = "mapping", !.beforeResult = lists,
                            !.calls = stepMap(step.fn, lists)]
  /\ UNCHANGED otherThanStep

\* A call of the inner mapper completes.
stepMapperSettles(i) ==
  /\ step.pc = "mapping"
  /\ i \in 1..Len(step.calls)
  /\ i \notin step.done
  /\ step' = [step EXCEPT !.done = step.done \cup {i}]
  /\ UNCHANGED otherThanStep

\* .then(() => lager.fire('after...', first, second)): the handler takes no
\* parameter, the two names are those of the parameters of the function.
stepMapped ==
  /\ step.pc = "mapping"
  /\ promiseAll(Len(step.calls), step.done)
  /\ step' = [step EXCEPT !.pc = "after", !.afterArgs = <<step.first, step.second>>]
  /\ UNCHANGED otherThanStep

\* The 'after' hooks resolved: .spread((first, second) => Promise.resolve(first))
stepAfterResolves ==
  /\ step.pc = "after"
  /\ step' = [step EXCEPT !.pc = "resolved",
                          !.value = stepFire(step.afterAct, step.afterArgs)[1]]
  /\ UNCHANGED otherThanStep

\* Either function, called with lists of up to MaxStepItems items, and any
\* behaviour of the hooks of the two events.
InitStep ==
  /\ FireIdle
  /\ disk = NoDisk
  /\ MergeIdle
  /\ LoadIdle
  /\ CmdIdle
  /\ LambdaIdle
  /\ dl = DlIdle /\ view = ViewIdle /\ cors = CorsIdle
  /\ \E fn \in StepFunctions, first \in StepLists, second \in StepLists,
        beforeAct \in StepHookActs, afterAct \in StepHookActs :
       step = [StepIdle EXCEPT !.fn = fn, !.first = first, !.second = second,
                               !.beforeAct = beforeAct, !.afterAct = afterAct]

NextStep ==
  \/ stepCall
  \/ stepBeforeResolves
  \/ \E i \in 1..(MaxStepItems * MaxStepItems) : stepMapperSettles(i)
  \/ stepMapped
  \/ stepAfterResolves

-----------------------------------------------------------------------------
(* Specifications *)

InitFire ==
  /\ plugins = <<>> /\ firePc = "idle" /\ fireEvent = "" /\ fireOrig = <<>>
  /\ fireArgs = <<>> /\ fireI = 1 /\ fireCalls = <<>> /\ fireSettled = 0
  /\ fireSeen = <<>> /\ fireStart = <<>>
  /\ disk = NoDisk
  /\ MergeIdle
  /\ LoadIdle
  /\ CmdIdle
  /\ LambdaIdle
  /\ RestIdle

SpecFire == InitFire /\ [][NextFire]_vars

SpecMerge == InitMerge /\ [][NextMerge]_vars

SpecMergeEdit == InitMergeEdit /\ [][NextMergeEdit]_vars

SpecMergeWrite == InitMergeWrite /\ [][NextMergeWrite]_vars

SpecLoad == InitLoad /\ [][NextLoad]_vars

SpecDeploy == InitDeploy /\ [][NextDeploy]_vars

SpecCommand == InitCommand /\ [][NextCommand]_vars

SpecLambda == InitLambda /\ [][NextLambda]_vars

SpecDeployLambdas == InitDeployLambdas /\ [][NextDeployLambdas]_vars

SpecInspect == InitInspect /\ [][NextInspect]_vars

SpecCors == InitCors /\ [][NextCors]_vars

SpecStep == InitStep /\ [][NextStep]_vars

-----------------------------------------------------------------------------
(* Hook bus: properties *)

\* The plugins among the first n of plist that implement eventName.
ImplementingUpTo(plist, eventName, n) ==
  {j \in 1..n : j <= Len(plist) /\ Implements(plist[j], eventName)}

CalledPlugins == {fireCalls[k].plugin : k \in 1..Len(fireCalls)}

\* How far the fire call has looked into the plugin list.
Scanned == IF firePc \in {"hook", "rejected", "thrown"} THEN fireI ELSE fireI - 1

\* C1: fire invokes the hook of exactly the plugins that define
\* hooks[eventName], each once and in registration order, one at a time (the
\* next hook starts only when the previous one has resolved); the first hook
\* receives the caller's arguments and each later one the list the previous
\* implementing plugin resolved with; a fire call that resolved has looked at
\* every registered plugin.
C1_FireCallsImplementingInOrder ==
  firePc # "idle" =>
    /\ \A k \in 1..Len(fireCalls) - 1 : fireCalls[k].plugin < fireCalls[k + 1].plugin
    /\ CalledPlugins = ImplementingUpTo(plugins, fireEvent, Scanned)
    /\ Len(fireCalls) - fireSettled = (IF firePc = "hook" THEN 1 ELSE 0)
    /\ Len(fireCalls) > 0 => fireCalls[1].args = fireOrig
    /\ \A k \in 1..Len(fireCalls) - 1 :
         fireCalls[k + 1].args = HookResult(plugins[fireCalls[k].plugin], fireCalls[k].args)
    /\ firePc = "resolved" => Scanned = Len(fireSeen)

\* C1 witness: a fire call resolved after two hooks ran, a plugin without the
\* hook standing between or around them.
C1_Witness ==
  /\ firePc = "resolved"
  /\ Len(fireCalls) = 2
  /\ Len(fireSeen) = 3
  /\ fireCalls[2].args # fireOrig

\* C2: when no registered plugin implements eventName (or none is
\* registered), fire resolves to the caller's argument list and calls no hook.
C2_FireWithoutImplementerReturnsArgs ==
  (firePc # "idle" /\ ImplementingUpTo(fireSeen, fireEvent, Len(fireSeen)) = {}) =>
    /\ firePc = "resolved"
    /\ fireArgs = fireOrig
    /\ fireCalls = <<>>

\* C2 witness: three arguments fired at two plugins, neither implementing the event.
C2_Witness ==
  /\ firePc = "resolved"
  /\ Len(fireSeen) = 2
  /\ ImplementingUpTo(fireSeen, fireEvent, 2) = {}
  /\ Len(fireOrig) = 3
  /\ fireArgs = fireOrig

\* The list with argument 2 replaced (9 is what the "repl2" hook writes).
Arg2Replaced(args) == ReplaceAt(args, 2, 9)

\* C3: when one plugin's hook replaces argument 2 and the other implementing
\* plugins resolve with what they received, every implementing plugin after
\* the replacing one receives the list with argument 2 replaced and the other
\* positions unchanged, and fire resolves to that list.
C3_ReplacementPropagates ==
  \A k \in 1..Len(fireCalls) :
    ( /\ plugins[fireCalls[k].plugin].act = "repl2"
      /\ \A m \in 1..Len(fireCalls) : m # k => plugins[fireCalls[m].plugin].act = "pass" )
    => /\ \A m \in k + 1..Len(fireCalls) : fireCalls[m].args = Arg2Replaced(fireOrig)
       /\ firePc = "resolved" => fireArgs = Arg2Replaced(fireOrig)

\* C3 witness: argument 2 of 3 replaced by the first of two hooks, the second
\* hook called with the replacement, fire resolved.
C3_Witness ==
  /\ firePc = "resolved"
  /\ Len(fireOrig) = 3
  /\ Len(fireCalls) = 2
  /\ plugins[fireCalls[1].plugin].act = "repl2"
  /\ plugins[fireCalls[2].plugin].act = "pass"
  /\ fireCalls[2].args = <<1, 9, 3>>
  /\ fireArgs = <<1, 9, 3>>

\* A step either leaves this.plugins alone or pushes one plugin at its end, and
\* a step of a fire call (the call itself or the settling of a hook) leaves it
\* alone.
PluginListStep ==
  \/ plugins' = plugins
  \/ /\ \E p \in Plugins : plugins' = Append(plugins, p)
     /\ UNCHANGED <<firePc, fireEvent, fireOrig, fireArgs, fireI, fireCalls, fireSettled>>

\* The plugins a fire call has consulted are among those registered when it
\* was called, and a fire call that resolved has consulted all of those and no
\* other.
ConsultedAsAtStart ==
  firePc # "idle" =>
    /\ CalledPlugins \subseteq 1..Len(fireStart)
    /\ Scanned <= Len(fireStart)
    /\ firePc = "resolved" => Scanned = Len(fireStart)

\* C26: across registerPlugin and fire calls the plugin list only grows by
\* appending at its end, a fire call leaves it unchanged, and the plugins
\* consulted by a fire call are exactly those registered when it started.
C26_PluginListAppendOnlyAndFixedPerFire ==
  [][PluginListStep]_vars /\ []ConsultedAsAtStart

\* The hooks a fire call invoked that reject or throw.
FailingCalls ==
  {k \in 1..Len(fireCalls) : plugins[fireCalls[k].plugin].act \in {"reject", "throw"}}

\* C29: when the hook of a plugin rejects or throws during fire, no hook of a
\* later plugin is invoked for that fire call, and fire returned a promise,
\* which rejects once the hook has settled and never resolves.
C29_FailingHookStopsFireAndRejects ==
  \A k \in FailingCalls :
    /\ k = Len(fireCalls)
    /\ firePc \in {"hook", "rejected"}
    /\ firePc = "hook" => fireSettled = Len(fireCalls) - 1

-----------------------------------------------------------------------------
(* Specification merger: properties *)

\* The result of the call mergeSpecsFiles made last.
LastResult == results[lastOp.idx]
JustMerged == lastOp.op = "merge" /\ ~LastResult.threw

MaxOf(S) == CHOOSE n \in S : \A m \in S : m <= n

\* The levels of the last call whose fragment sets key k to a value of kind t.
LevelsSetting(k, t) == {n \in 1..Len(used) : used[n].doc.props[k].kind = t}

\* The levels of the last call whose fragment sets responses[sk].
LevelsSettingSub(sk) ==
  {n \in LevelsSetting("responses", "map") : used[n].doc.props["responses"].sub[sk] # 0}

\* C4: in the merged document a scalar key has the value of the deepest level
\* that sets it, and a nested mapping holds the union of the keys of all
\* levels, each with the value of the deepest level that sets it.
C4_DeepestScalarWinsMappingsUnion ==
  JustMerged =>
    LET spec == LastResult.doc.props IN
      /\ IF LevelsSetting("summary", "scalar") = {}
           THEN spec["summary"].kind = "none"
           ELSE /\ spec["summary"].kind = "scalar"
                /\ spec["summary"].n =
                     used[MaxOf(LevelsSetting("summary", "scalar"))].doc.props["summary"].n
      /\ spec["responses"].kind = "map" <=> LevelsSetting("responses", "map") # {}
      /\ \A sk \in SubKeys :
           spec["responses"].sub[sk] =
             IF LevelsSettingSub(sk) = {} THEN 0
             ELSE used[MaxOf(LevelsSettingSub(sk))].doc.props["responses"].sub[sk]

\* C4 witness: summary set at a and again at a/b (a/b wins), responses['200']
\* set only at a and responses['404'] only at a/b: the result holds both.
C4_Witness ==
  /\ JustMerged
  /\ used[1].doc = Doc(Scalar(1), NoVal, Map200(1))
  /\ used[2].doc = Doc(Scalar(2), NoVal, Map404(2))
  /\ used[3].outcome = "MODULE_NOT_FOUND"
  /\ LastResult.doc.props["summary"].n = 2
  /\ LastResult.doc.props["responses"].sub["200"] = 1
  /\ LastResult.doc.props["responses"].sub["404"] = 2

\* C5: when two levels set the same key to a sequence, the merged value is
\* exactly the sequence of the deeper level.
C5_DeeperSequenceReplaces ==
  (JustMerged /\ LevelsSetting("consume", "list") # {}) =>
    LastResult.doc.props["consume"].elems =
      used[MaxOf(LevelsSetting("consume", "list"))].doc.props["consume"].elems

\* What _.merge makes of it: the deeper sequence written over the head of the
\* shallower one, whose tail stays.
C5_IndexWiseMerge ==
  /\ JustMerged
  /\ used[1].doc.props["consume"].elems = <<1, 2>>
  /\ used[2].doc.props["consume"].elems = <<3>>
  /\ used[3].doc.props["consume"].kind = "none"
  /\ LastResult.doc.props["consume"].elems = <<3, 2>>

\* The directory at level n of the path of the last call.
LevelDir(n) == SubSeq(LastResult.path, 1, n)

\* The levels of the last call's path with no fragment (no spec file, and no
\* module loaded from one), and those whose fragment is loaded.
LevelsWithout == {n \in 1..3 : ~requireCache[LevelDir(n)].loaded /\ disk[LevelDir(n)] = MissingFile}
LevelsLoaded == {n \in 1..3 : requireCache[LevelDir(n)].loaded}

\* C6: absent spec files raise no error; when no level has a fragment the
\* result is the empty document, and when one level has one the result is that
\* fragment, whatever the levels without a file around it.
C6_MissingFragmentsSkipped ==
  lastOp.op = "merge" =>
    /\ (LevelsWithout \cup LevelsLoaded = 1..3) => ~LastResult.threw
    /\ (LevelsWithout = 1..3) => StripIds(LastResult.doc) = EmptyDoc
    /\ \A n \in LevelsLoaded :
         (LevelsWithout = (1..3) \ {n}) =>
            StripIds(LastResult.doc) = StripIds(requireCache[LevelDir(n)].obj)

\* C6 witness: no spec file at any level and the empty document returned.
C6_Witness ==
  /\ lastOp.op = "merge"
  /\ LevelsWithout = 1..3
  /\ ~LastResult.threw
  /\ StripIds(LastResult.doc) = EmptyDoc

\* C6 witness of the second half is the state where only a/b has a fragment.
OnlyMiddleLevelLoaded ==
  /\ lastOp.op = "merge"
  /\ LevelsWithout = {1, 3}
  /\ StripIds(LastResult.doc) = Doc(NoVal, List(<<1, 2>>), Map200(2))

\* The document a directory's spec file holds now ({} when there is none).
OnDisk(dir) == IF disk[dir].state = "ok" THEN disk[dir].doc ELSE EmptyDoc

\* The document a call first loaded from a directory ({} when none did).
FirstLoaded(dir) == IF firstSeen[dir].seen THEN firstSeen[dir].doc ELSE EmptyDoc

\* The merge, level after level, of the documents Content gives for the first
\* n directories of path.
RECURSIVE MergeAlong(_, _, _)
MergeAlong(Content(_), path, n) ==
  IF n = 0 THEN EmptyDoc
  ELSE StripIds(merge(MergeAlong(Content, path, n - 1), Content(SubSeq(path, 1, n))))

\* C7 as stated: every call returns the merge of what the spec files hold at
\* the time of the call.
C7_CallReflectsDisk ==
  ( /\ lastOp.op = "merge"
    /\ \A n \in 1..3 : disk[SubSeq(LastResult.path, 1, n)].state # "malformed" )
  => /\ ~LastResult.threw
     /\ StripIds(LastResult.doc) = MergeAlong(OnDisk, LastResult.path, 3)

\* C7 amended: a call returns the merge of the documents as they were when a
\* call first loaded them; a file changed after it was loaded is not read
\* again, a file no call has loaded yet is read as it is now.
C7_CallReflectsFirstLoad ==
  /\ JustMerged => StripIds(LastResult.doc) = MergeAlong(FirstLoaded, LastResult.path, 3)
  /\ \A d \in Dirs : requireCache[d].loaded =>
       /\ firstSeen[d].seen
       /\ StripIds(requireCache[d].obj) = firstSeen[d].doc
  /\ \A d \in Dirs : (firstSeen[d].seen /\ edits = 0) => firstSeen[d].doc = OnDisk(d)

\* C7 witness: a second call made after a loaded file was changed returns the
\* old content, not the new one.
C7_Witness ==
  /\ JustMerged
  /\ lastOp.idx = 2
  /\ edits = 1
  /\ \A n \in 1..3 : disk[SubSeq(LastResult.path, 1, n)].state # "malformed"
  /\ StripIds(LastResult.doc) = MergeAlong(FirstLoaded, LastResult.path, 3)
  /\ StripIds(LastResult.doc) # MergeAlong(OnDisk, LastResult.path, 3)

\* C8: a write into a document mergeSpecsFiles returned changes no other
\* returned document and no cached module, and a call made after the write
\* still returns the merge of the fragments as loaded, without the write.
C8_ReturnedDocumentsAreFresh ==
  /\ [][ (lastOp'.op = "write" /\ writes' = writes + 1) =>
           /\ requireCache' = requireCache
           /\ \A j \in 1..Len(results) :
                j # lastOp'.idx => results'[j] = results[j] ]_vars
  /\ []( (JustMerged /\ writes > 0) =>
           StripIds(LastResult.doc) = MergeAlong(FirstLoaded, LastResult.path, 3) )

\* No object is part of two returned documents or of a returned document and a
\* cached module.
NoSharedObjects ==
  /\ \A i, j \in 1..Len(results) :
       (i # j /\ ~results[i].threw /\ ~results[j].threw) =>
         IdsOf(results[i].doc) \cap IdsOf(results[j].doc) = {}
  /\ \A i \in 1..Len(results), d \in Dirs :
       (~results[i].threw /\ requireCache[d].loaded) =>
         IdsOf(results[i].doc) \cap IdsOf(requireCache[d].obj) = {}

\* C8 witness: two endpoints under a/b, both with the responses mapping of an
\* ancestor fragment; a write into the first one's mapping shows in the first
\* document only.
C8_Witness ==
  /\ lastOp.op = "write"
  /\ lastOp.idx = 1
  /\ Len(results) = 2
  /\ results[1].path # results[2].path
  /\ ~results[2].threw
  /\ requireCache[<<"a">>].loaded
  /\ requireCache[<<"a">>].obj.props["responses"].sub["200"] \in {1, 2}
  /\ results[1].doc.props["responses"].sub["200"] = 7
  /\ results[2].doc.props["responses"].sub["200"] \in {1, 2}

-----------------------------------------------------------------------------
(* Loader: properties *)

\* The methods of the endpoint model.
EndpointMethods == {"GET", "POST", "PUT", "PATCH", "DELETE", "OPTIONS", "ANY"}

\* loadEndpoints has resolved with a list of endpoints.
EndpointsLoaded ==
  loadEndpointsP.state = "resolved" /\ loadEndpointsP.isList

\* The endpoints loaded for the directory dir: its last segment as method, the
\* segments before it joined by '/' as resource path.
EndpointsOf(dir) ==
  {k \in 1..Len(loadEndpointsP.value) :
     /\ loadEndpointsP.value[k].method = dir[Len(dir)]
     /\ loadEndpointsP.value[k].resourcePath = join(<<"">> \o Front(dir), "/")}

\* C9: loadEndpoints yields exactly one endpoint for every directory under
\* endpoints/ whose last segment is one of GET, POST, PUT, PATCH, DELETE,
\* OPTIONS, ANY, with the preceding segments joined by '/' as resource path,
\* and none for a directory whose last segment is anything else.
C9_OneEndpointPerMethodDirectory ==
  (EndpointsLoaded /\ endpointsRootExists) =>
    /\ \A dir \in endpointDirs :
         Cardinality(EndpointsOf(dir)) =
           IF dir[Len(dir)] \in EndpointMethods THEN 1 ELSE 0
    /\ \A k \in 1..Len(loadEndpointsP.value) : \E dir \in endpointDirs : k \in EndpointsOf(dir)

\* loadApis / loadEndpoints got as far as reading its root directory.
ApisRootRead == fireResolves("beforeApisLoad", <<>>)
EndpointsRootRead == fireResolves("beforeEndpointsLoad", <<>>)

Settled(p) == p.state \in {"resolved", "rejected"}

\* C10: with no apis/ directory loadApis resolves to the empty list, with no
\* endpoints/ directory loadEndpoints resolves to the empty list; neither
\* rejects, and deploy goes on to its next step with the empty list.
C10_MissingRootLoadsEmpty ==
  /\ (Settled(loadApisP) /\ ~apisRootExists /\ ApisRootRead)
       => loadApisP = Resolved(<<>>)
  /\ (Settled(loadEndpointsP) /\ ~endpointsRootExists /\ EndpointsRootRead)
       => loadEndpointsP = Resolved(<<>>)
  /\ (deployPc = "rejected" /\ ~apisRootExists) => ~ApisRootRead
  /\ (deployPc = "rejected" /\ ~endpointsRootExists /\ EndpointsRootRead)
       => loadApisP.state = "rejected"
  /\ (deployPc = "loadIntegrations" /\ ~apisRootExists) => loadApisP = Resolved(<<>>)
  /\ (deployPc = "loadIntegrations" /\ ~endpointsRootExists /\ EndpointsRootRead)
       => loadEndpointsP = Resolved(<<>>)

C10_Witness ==
  /\ deployPc = "loadIntegrations"
  /\ ~apisRootExists
  /\ ~endpointsRootExists
  /\ loadApisP = Resolved(<<>>)
  /\ loadEndpointsP = Resolved(<<>>)

\* The error thrown inside loadApis / loadEndpoints before its catch, in the
\* project as it is (NoError when nothing is thrown).
ApisLoadError ==
  loadApisTry(readdirApis, [k \in 1..Len(readdirApis) |-> loadApi(readdirApis[k])]).err

EndpointsLoadError ==
  loadEndpointsTry(loadAllEndpoints(walkCallbacks(walkSync),
                     [loaded |-> <<>>, cache |-> requireCache, nid |-> nextId])).err

\* C11: when loading an API or an endpoint fragment fails because its content
\* is malformed, deploy rejects with that error and the loadIntegrations hook
\* is never fired, for a failure in loadApis and in loadEndpoints alike.
C11_MalformedFragmentRejectsDeploy ==
  /\ (ApisLoadError.name = "SyntaxError") =>
       /\ Settled(loadApisP) => loadApisP = Rejected(ApisLoadError)
       /\ deployPc # "loadIntegrations"
  /\ (EndpointsLoadError.name = "SyntaxError") =>
       /\ Settled(loadEndpointsP) => loadEndpointsP = Rejected(EndpointsLoadError)
       /\ deployPc # "loadIntegrations"

-----------------------------------------------------------------------------
(* Deploy: properties *)

\* The step of deploy a hook or an operation belongs to: 2 loadIntegrations,
\* 3 addIntegrationDataToEndpoints, 4 addEndpointsToApis, 5 publishAllApis.
StepOf(entry) ==
  IF entry.name = "loadIntegrations" THEN 2
  ELSE IF entry.name \in {"beforeAddIntegrationDataToEndpoints",
                          "afterAddIntegrationDataToEndpoints", "applyToEndpoint"} THEN 3
  ELSE IF entry.name \in {"beforeAddEndpointsToApis", "afterAddEndpointsToApis",
                          "addEndpoint"} THEN 4
  ELSE 5

\* The entry e is in the history before position i.
Before(e, i) == \E j \in 1..(i - 1) : trace[j] = e

StepsInOrder ==
  /\ trace # <<>> => loadApisP.state = "resolved" /\ loadEndpointsP.state = "resolved"
  /\ \A i, j \in 1..Len(trace) : i < j => StepOf(trace[i]) <= StepOf(trace[j])
  /\ \A i \in 1..Len(trace) :
       /\ trace[i] = Called("applyToEndpoint") => Before(HookResolved("loadIntegrations"), i)
       /\ trace[i] = Called("addEndpoint") =>
            Before(HookResolved("afterAddIntegrationDataToEndpoints"), i)
       /\ trace[i] = Called("publish") => Before(HookResolved("afterAddEndpointsToApis"), i)
       /\ trace[i].kind = "rejected" => i = Len(trace) /\ deployPc = "rejected"

NothingLaterOnceRejected ==
  deployPc = "rejected" =>
    /\ deployPc' = "rejected"
    /\ deployValue' = deployValue
    /\ \A i \in (Len(trace) + 1)..Len(trace') :
         trace # <<>> /\ StepOf(trace'[i]) = StepOf(trace[Len(trace)])

\* C12: in one deploy the loadIntegrations hook is fired only after both loads
\* resolved, applyToEndpoint is called only after loadIntegrations resolved,
\* addEndpoint only after the afterAddIntegrationDataToEndpoints hooks
\* resolved, publish only after the afterAddEndpointsToApis hooks resolved;
\* once a step rejected, no hook or operation of a later step runs and
\* deploy is rejected.
C12_DeployStepsInOrder == []StepsInOrder /\ [][NothingLaterOnceRejected]_vars

C12_Witness ==
  /\ deployPc = "resolved"
  /\ applyCalls # <<>>
  /\ addCalls # <<>>
  /\ publishCalls # <<>>

\* injector.appliesTo(endpoint), for the injector and the endpoint at these
\* positions of the lists of the inject step.
appliesTo(j, k) == k \in injectors[j].applies

\* C13: applyToEndpoint is invoked for an (injector, endpoint) pair only if
\* appliesTo of the pair is true.
C13_ApplyOnlyWhereAppliesTo ==
  \A c \in 1..Len(applyCalls) : appliesTo(applyCalls[c][1], applyCalls[c][2])

\* The inject step of deploy is over.
InjectStepOver ==
  deployPc \in {"afterAddIntegrationDataToEndpoints", "beforeAddEndpointsToApis", "adding",
                "afterAddEndpointsToApis", "beforePublishAllApis", "publishing", "resolved"}

\* The injectors that apply to the endpoint at position k and wrote into it.
ApplicableWrites(k) ==
  {j \in writers[k] : appliesTo(j, k)}

\* C14: after the inject step each endpoint has been written by at most one
\* injector, even when two injectors apply to it.
C14_AtMostOneInjectorPerEndpoint ==
  InjectStepOver => \A k \in DOMAIN writers : Cardinality(ApplicableWrites(k)) <= 1

\* C15: no two applyToEndpoint calls on one endpoint have both started and
\* neither has finished.
C15_NoTwoApplyInProgressOnOneEndpoint ==
  \A c1, c2 \in 1..Len(applyCalls) :
    (c1 # c2 /\ c1 \notin applyDone /\ c2 \notin applyDone)
      => applyCalls[c1][2] # applyCalls[c2][2]

\* The attach step of deploy is over.
AttachStepOver ==
  deployPc \in {"afterAddEndpointsToApis", "beforePublishAllApis", "publishing", "resolved"}

\* How many times addEndpoint was called on the API at a for the endpoint at k.
AddCallsOf(a, k) == Cardinality({c \in 1..Len(addCalls) : addCalls[c] = <<a, k>>})

\* C16: after addEndpointsToApis an endpoint is in the endpoints of an API if
\* and only if its specification declares the identifier of the API;
\* addEndpoint is called once for each declaring (api, endpoint) pair and
\* never for another pair, after the beforeAddEndpointsToApis hooks and
\* before the afterAddEndpointsToApis hooks.
C16_EndpointsAttachedWhereDeclared ==
  /\ (AttachStepOver /\ EndpointsDefined) =>
       \A a \in 1..Len(Apis), k \in 1..Len(Endpoints) :
         /\ k \in apiEndpoints[a] <=> belongsToApi(k, Apis[a].identifier)
         /\ AddCallsOf(a, k) = IF belongsToApi(k, Apis[a].identifier) THEN 1 ELSE 0
  /\ \A c \in 1..Len(addCalls) :
       /\ belongsToApi(addCalls[c][2], Apis[addCalls[c][1]].identifier)
       /\ AddCallsOf(addCalls[c][1], addCalls[c][2]) = 1
  /\ \A i \in 1..Len(trace) :
       trace[i] = Called("addEndpoint") =>
         /\ Before(HookResolved("beforeAddEndpointsToApis"), i)
         /\ ~Before(Fired("afterAddEndpointsToApis"), i)

C16_Witness ==
  /\ AttachStepOver
  /\ EndpointsDefined
  /\ \E a \in 1..Len(Apis), k \in 1..Len(Endpoints) :
       belongsToApi(k, Apis[a].identifier) /\ k \in apiEndpoints[a]
  /\ \E a \in 1..Len(Apis), k \in 1..Len(Endpoints) :
       ~belongsToApi(k, Apis[a].identifier) /\ k \notin apiEndpoints[a]

\* C17: when deploy resolves, its value is a list with exactly one entry per
\* loaded API, each entry referring to a distinct API: the empty list for no
\* API, n entries for n APIs.
C17_DeployResolvesWithOneResultPerApi ==
  deployPc = "resolved" =>
    /\ deployValue.type = "list"
    /\ Len(deployValue.items) = Len(Apis)
    /\ \A i \in 1..Len(deployValue.items) :
         /\ deployValue.items[i].type = "Api"
         /\ deployValue.items[i].identifier = Apis[i].identifier

\* How many times the entry e is in the history.
TimesIn(e) == Cardinality({i \in 1..Len(trace) : trace[i] = e})

\* C25: in a deploy the beforePublishAllApis hooks are fired once, and have
\* resolved before any publish is called; the afterPublishAllApis hooks are
\* fired at most once, only when every publish has completed, and have been
\* fired once when deploy resolved.
C25_PublishHooksOncePerRun ==
  /\ TimesIn(Fired("beforePublishAllApis")) <= 1
  /\ \A i \in 1..Len(trace) :
       trace[i] = Called("publish") => Before(HookResolved("beforePublishAllApis"), i)
  /\ TimesIn(Fired("afterPublishAllApis")) <= 1
  /\ TimesIn(Fired("afterPublishAllApis")) > 0 =>
       /\ Len(publishCalls) = Len(Apis)
       /\ publishDone = 1..Len(Apis)
  /\ deployPc = "resolved" => TimesIn(Fired("afterPublishAllApis")) = 1

-----------------------------------------------------------------------------
(* deploy-apis command: properties *)

\* The APIs of the batch whose deploy the provider rejects.
RejectedApis == {i \in 1..Len(cmdApis) : provider[cmdApis[i]] = "rejected"}

\* The last .spread of executeCommand has run.
ResultsDisplayed == cmdPc \in {"publishing", "published", "exited"}

\* The report of a deploy the provider accepted: its operation, its remote identifier.
GoodReport(i) ==
  /\ cmdReports[i].api = cmdApis[i]
  /\ cmdReports[i].operation \in {"Created", "Updated"}
  /\ cmdReports[i].operation = provider[cmdApis[i]]
  /\ cmdReports[i].awsId = <<"aws", cmdApis[i]>>
  /\ ~Truthy(cmdReports[i].failed)

\* C18: when the provider rejects the deploy of an API of the batch, no API is
\* ever published, and once the results are displayed api.deploy has been
\* called on every API of the batch: each API the provider accepted has a
\* report with its operation and its remote identifier, each rejected one a
\* report with a failure marker.
C18_PartialFailureIsolated ==
  RejectedApis # {} =>
    /\ cmdPublishCalls = <<>>
    /\ cmdPc \notin {"publishing", "published"}
    /\ \A i \in cmdDeployed :
         IF i \in RejectedApis THEN Truthy(cmdReports[i].failed) ELSE GoodReport(i)
    /\ ResultsDisplayed =>
         /\ timersFired = Len(cmdApis)
         /\ cmdDeployed = 1..Len(cmdApis)

\* A batch of three whose second deploy was rejected, after the results.
C18_Witness ==
  /\ Len(cmdApis) = 3
  /\ RejectedApis = {2}
  /\ cmdPc = "exited"
  /\ GoodReport(1) /\ GoodReport(3)
  /\ Truthy(cmdReports[2].failed)

\* The reports received that carry a failure marker.
FailedReports == {i \in cmdDeployed : Truthy(cmdReports[i].failed)}

\* C19: publish is called on an API only when every deploy of the batch has
\* completed without a failure marker; with a failure marker in a report,
\* publish is called on no API and, the results displayed, the process has
\* exited with code 1.
C19_PublishOnlyAfterFullSuccess ==
  /\ cmdPublishCalls # <<>> =>
       /\ cmdDeployed = 1..Len(cmdApis)
       /\ FailedReports = {}
  /\ FailedReports # {} =>
       /\ cmdPublishCalls = <<>>
       /\ ResultsDisplayed => cmdPc = "exited" /\ exitCode = 1
  /\ exitCode # NoExit => cmdPublishCalls = <<>>

\* Both ends: a batch of two published, all deployed before.
C19_Witness ==
  /\ Len(cmdApis) >= 2
  /\ cmdPc = "published"
  /\ Len(cmdPublishCalls) = Len(cmdApis)
  /\ cmdDeployed = 1..Len(cmdApis)

\* The deploy of the API at position i of the batch has been started.
DeployStarted(i) == i \in TimersRun

\* C27: in the deploy-apis command the deploy of the API at batch position i
\* (from 0) is started only after i times the backoff has passed since the
\* timers were set; the deploys are started in batch order; and a deploy
\* whose delay has passed can start whatever earlier deploys are still in
\* progress.
C27_DeploysStartAfterBackoffInBatchOrder ==
  /\ \A k \in 1..Len(timers.ran) :
       /\ timers.ran[k].timer = k
       /\ timers.ran[k].at >= (k - 1) * Backoff
  /\ Len(timers.ran) = timersFired
  /\ \A i \in 1..Len(timers.delay) :
       (cmdPc = "deploying" /\ ~DeployStarted(i) /\ (i - 1) * Backoff <= timers.now
          /\ \A j \in 1..i - 1 : DeployStarted(j))
         => ENABLED setTimeoutFires(i)

\* C27 witness: the deploys of three APIs started one backoff apart, the
\* third one while the first two are still in progress.
C27_Witness ==
  /\ Len(cmdApis) = 3
  /\ Len(timers.ran) = 3
  /\ timers.ran[2].at = Backoff
  /\ timers.ran[3].at = 2 * Backoff
  /\ cmdDeployed = {}

-----------------------------------------------------------------------------
(* Lambda: properties *)

\* How many times deploy invoked a method since it was called.
Invoked(op) == Cardinality({i \in 1..Len(lambdaCalls) : lambdaCalls[i] = op})

\* The existence check of the deploy in progress has been answered.
CheckAnswered == lambdaPc \notin {"idle", "isDeployed"}

\* C20: after the existence check, if the function exists update was invoked
\* once, create never, and report.operation is 'Update'; if the check failed
\* with ResourceNotFoundException create was invoked once, update never,
\* report.operation is 'Creation' and deploy does not reject with that error;
\* if it failed with another error deploy has rejected with it and neither
\* create nor update was invoked.
C20_ExistenceCheckDecidesBranch ==
  CheckAnswered =>
    /\ getFunctionE = "none" =>
         /\ Invoked("update") = 1 /\ Invoked("create") = 0
         /\ lambdaReport.operation = "Update"
    /\ getFunctionE = "ResourceNotFoundException" =>
         /\ Invoked("create") = 1 /\ Invoked("update") = 0
         /\ lambdaReport.operation = "Creation"
         /\ lambdaError # "ResourceNotFoundException"
    /\ getFunctionE \notin {"none", "ResourceNotFoundException"} =>
         /\ lambdaPc = "rejected"
         /\ lambdaError = getFunctionE
         /\ Invoked("create") = 0 /\ Invoked("update") = 0

\* A function created by a first deploy and updated by the second.
C20_Witness ==
  /\ lambdaDeploys = 2
  /\ lambdaPc = "resolved"
  /\ getFunctionE = "none"
  /\ lambdaReport.operation = "Update"
  /\ lambdaCalls[1] = "update"

\* The deploy in progress is of the target of the deploy before it, in the
\* same context, and that deploy created the function.
Redeploy ==
  /\ lambdaPrev.pc = "resolved"
  /\ lambdaPrev.operation = "Creation"
  /\ lambdaPrev.name = lambdaReport.name
  /\ lambdaPrev.context = lambdaContext

\* The errors a call of the provider can fail with whatever the state of the
\* remote resources.
ProviderErrors ==
  (Faults \ {""}) \cup {"UpdateError", "CreateError", "PublishVersionError", "AliasError"}

\* C21: a deploy that follows a deploy of the same function name in the same
\* context which created the function finds the function: it invokes update
\* and never create, reports 'Update', the function still exists under the
\* one name both deploys computed, and it rejects only with an error of the
\* provider, never because the function exists already.
C21_SecondDeployUpdates ==
  (Redeploy /\ CheckAnswered /\ getFunctionE \in {"none", "ResourceNotFoundException"}) =>
    /\ getFunctionE = "none"
    /\ lambdaReport.operation = "Update"
    /\ Invoked("update") = 1 /\ Invoked("create") = 0
    /\ FunctionName = lambdaPrev.name
    /\ FunctionName \in remoteFunctions
    /\ lambdaPc = "rejected" => lambdaError \in ProviderErrors
    /\ lambdaPc \in {"resolved", "rejected", "update", "publishVersion", "aliasExists",
                     "updateAlias", "createAlias"}

\* The second of two deploys of one target has resolved.
C21_Witness ==
  /\ Redeploy
  /\ lambdaDeploys = 2
  /\ lambdaPc = "resolved"
  /\ lambdaReport.operation = "Update"
  /\ lambdaContext.environment = "DEV"

\* The calls setAlias makes, among those of the deploy in progress.
AliasCalls == {"publishVersion", "aliasExists", "updateAlias", "createAlias"}

\* The alias the deploy in progress sets, while it has one to set.
AliasVersion == remoteAliases[FunctionName][lambdaContext.stage]

\* The calls and the report of a deploy, with and without a stage.
AliasSetAfterDeploy ==
  CheckAnswered =>
    IF Truthy(lambdaContext.stage)
      THEN /\ \A i \in 1..Len(lambdaCalls) :
                /\ lambdaCalls[i] \in {"create", "update"} <=> i = 1
                /\ lambdaCalls[i] = "publishVersion" <=> i = 2
                /\ lambdaCalls[i] = "aliasExists" <=> i = 3
                /\ lambdaCalls[i] \in {"updateAlias", "createAlias"} <=> i = 4
           /\ lambdaPc = "updateAlias" =>
                AliasVersion # 0 /\ lambdaReport.aliasExisted = "true"
           /\ lambdaPc = "createAlias" =>
                AliasVersion = 0 /\ lambdaReport.aliasExisted = "false"
           /\ lambdaPc = "resolved" =>
                /\ Len(lambdaCalls) = 4
                /\ lambdaReport.publishedVersion = remoteVersions[FunctionName]
                /\ lambdaReport.publishedVersion > 0
                /\ AliasVersion = lambdaReport.publishedVersion
                /\ lambdaReport.aliasExisted = "true" <=> lambdaCalls[4] = "updateAlias"
                /\ lambdaReport.aliasExisted = "false" <=> lambdaCalls[4] = "createAlias"
                /\ lambdaReport.arn = AliasArn(FunctionName, lambdaContext.stage)
      ELSE /\ \A i \in 1..Len(lambdaCalls) : lambdaCalls[i] \notin AliasCalls
           /\ lambdaReport.publishedVersion = 0
           /\ lambdaReport.aliasExisted = "undefined"
           /\ lambdaPc = "resolved" => lambdaReport.arn = FunctionArn(FunctionName)

\* Without a stage no step of deploy changes a version or an alias.
NoStageNoVersion ==
  (lambdaPc # "idle" /\ ~Truthy(lambdaContext.stage) /\ lambdaPc' # "isDeployed")
    => UNCHANGED <<remoteVersions, remoteAliases>>

\* C24: with a stage in the context, publishVersion is called after create or
\* update completed, then the alias is looked up and updated if it exists,
\* created if it does not; once deploy resolved the alias points to the
\* version just published and the report holds that version, whether the
\* alias existed and the ARN of the alias. Without a stage setAlias makes no
\* call and the report holds the ARN of the function.
C24_AliasSetAfterDeploy == []AliasSetAfterDeploy /\ [][NoStageNoVersion]_vars

\* An existing alias moved to the second version of its function.
C24_Witness ==
  /\ lambdaPc = "resolved"
  /\ Truthy(lambdaContext.stage)
  /\ lambdaReport.aliasExisted = "true"
  /\ lambdaReport.publishedVersion = 2
  /\ AliasVersion = 2

-----------------------------------------------------------------------------
(* deploy-lambdas command: properties *)

\* The catch of executeCommand has run.
DlCaught == dl.pc \in {"exited", "rejected"}

\* C22: once the catch of the deploy-lambdas command has run on the error of
\* a failed call, an error with code AccessDeniedException has had the
\* explanation printed and the process exited with code 1; an error with any
\* other code is the rejection of the command, unchanged, and the process has
\* not exited.
C22_AccessDeniedExplainedAndExits ==
  DlCaught =>
    IF dl.map.error.code = "AccessDeniedException"
      THEN dl.pc = "exited" /\ dl.exit = 1 /\ dl.printed = Explanation
      ELSE dl.pc = "rejected" /\ dl.error = dl.map.error /\ dl.exit = NoExit
             /\ dl.printed = <<>>

-----------------------------------------------------------------------------
(* Views of an endpoint specification: properties *)

\* The fields of a JSON text.
parse(json) == {json[i] : i \in 1..Len(json)}

\* C23: the specification getEndpointSpec returned for type 'doc' has no field
\* private to the provider, for type 'aws' no field of the documentation only,
\* and for type 'complete' every field of the endpoint's specification.
C23_ReturnedSpecIsViewNamedByType ==
  view.pc = "resolved" =>
    /\ view.type = "doc" => parse(view.json) = view.spec \ ProviderFields
    /\ view.type = "aws" => parse(view.json) = view.spec \ DocOnlyFields
    /\ view.type = "complete" => parse(view.json) = view.spec

-----------------------------------------------------------------------------
(* CORS plugin: properties *)

\* The API had an OPTIONS endpoint on this path when the hook was called.
HadOptions(resourcePath) ==
  \E i \in 1..Len(cors.before) : cors.before[i] = UserEndpoint(resourcePath, "OPTIONS")

\* The additions the hook made for this path.
AdditionsFor(resourcePath) ==
  {i \in 1..Len(cors.promises) : cors.promises[i].resourcePath = resourcePath}

\* The endpoints the API has.
CorsAttached == {cors.endpoints[i] : i \in 1..Len(cors.endpoints)}

\* C28: when the CORS hook has resolved, it has added one synthesized OPTIONS
\* endpoint for each resource path of the API that had no OPTIONS endpoint
\* and none for a path that had one, whose OPTIONS endpoint is still the one
\* the user defined; and every addition has completed.
C28_OneOptionsPerPathWithoutOne ==
  cors.pc = "resolved" =>
    /\ \A i \in 1..Len(cors.before) :
         IF HadOptions(cors.before[i].resourcePath)
           THEN /\ AdditionsFor(cors.before[i].resourcePath) = {}
                /\ UserEndpoint(cors.before[i].resourcePath, "OPTIONS") \in CorsAttached
           ELSE /\ Cardinality(AdditionsFor(cors.before[i].resourcePath)) = 1
                /\ corsEndpoint(cors.before[i].resourcePath) \in CorsAttached
    /\ cors.done = 1..Len(cors.promises)

-----------------------------------------------------------------------------
(* Deploy steps between their hooks: properties *)

\* The 'before' hooks of the step have resolved.
BeforeHooksRan == step.pc \in {"mapping", "after", "resolved"}

\* The 'after' hooks of the step have been fired.
AfterHooksFired == step.pc \in {"after", "resolved"}

\* C30: in addIntegrationDataToEndpoints and addEndpointsToApis, once the
\* 'before' hooks have resolved the step iterates over the lists they
\* resolved with, the 'after' hooks are fired with those same lists, and the
\* function resolves to the first list as the 'after' hooks returned it.
C30_ReplacedListsUsedAfterBeforeHooks ==
  /\ BeforeHooksRan => step.calls = stepMap(step.fn, step.beforeResult)
  /\ AfterHooksFired => step.afterArgs = step.beforeResult
  /\ step.pc = "resolved" =>
       step.value = stepFire(step.afterAct, step.beforeResult)[1]

====
